---- MODULE Spec2Model ----
(***************************************************************************)
(* Model of the Terraform tag checker (src/hooks/aws_tags_check.py):       *)
(* the block extractor get_block_lines, the scanner check_aws_tags and the *)
(* command line main.  A line of text is a sequence of one-character       *)
(* strings; indices into the line sequence are 0-based as in the source,   *)
(* so lines[k] of the source is lines[k + 1] here.  The lines of a file    *)
(* carry their "\n", as readlines() returns them.                          *)
(***************************************************************************)
EXTENDS Integers, Sequences, FiniteSets, TLC

VARIABLES
    argv,           \* sys.argv[1:] of the process: <<>> or <<path>>
    fs,             \* the file behind each path: a line sequence, or a read failure
    pc,             \* position of the process
    lines,          \* check_aws_tags: lines = f.readlines()
    i,              \* check_aws_tags: the cursor
    warnings,       \* check_aws_tags: the warnings list
    start_index,    \* get_block_lines: argument
    gi,             \* get_block_lines: its local i
    brace_count,    \* get_block_lines: brace_count
    block_started,  \* get_block_lines: block_started
    block_lines,    \* get_block_lines: block_lines
    caller,         \* who called get_block_lines: "direct", "resource", "module"
    exit_code,      \* exit status of the process, -1 while it runs
    extractions,    \* history: one record per finished get_block_lines call
    examined,       \* history: the cursor values check_aws_tags classified
    runs,           \* history: the finished runs, [path, result] each
    errors,         \* check_yaml_indentation: the errors list
    opened,         \* history: the paths whose content the process has read
    fixed_lines,    \* fix_yaml_indentation: the lines to write back
    inside_steps,   \* harness_indent: a 'steps:' line has been seen
    first_step,     \* harness_indent: no '- step:' since the last 'steps:'
    variant,        \* which module of the repository runs: "root" or "tools"
    content,        \* parse_jenkinsfile, extract_vault_info: content
    stage_blocks,   \* parse_jenkinsfile: stage_blocks
    bidx,           \* parse_jenkinsfile: how many blocks the loop has handled
    stages,         \* parse_jenkinsfile: stages
    step_counts,    \* parse_jenkinsfile: step_counts
    tool_counts_per_stage,  \* parse_jenkinsfile: tool_counts_per_stage
    tools_used_per_stage,   \* parse_jenkinsfile: tools_used_per_stage
    func_blocks,    \* extract_vault_info: func_blocks, (func_def, func_body) each
    results,        \* extract_vault_info, extract_docker_agent_info: results
    start,          \* extract_environment_block: start
    stack,          \* extract_environment_block: stack
    end,            \* extract_environment_block: end, -1 standing for None
    files,          \* the files a batch run iterates over, in iteration order
    fidx,           \* batch run: how many of the files have been handled
    data,           \* batch run: the rows collected so far
    workers,        \* one scan per file, run concurrently: each worker's locals
    keyword_lists   \* worker pool: the module-level keyword lists the scans share

\* the state of the tag checker process
tagvars == <<argv, fs, pc, lines, i, warnings, start_index, gi, brace_count,
             block_started, block_lines, caller, exit_code, extractions,
             examined, runs>>

\* the state of the YAML validator
\* the locals of fix_yaml_indentation
fixvars == <<fixed_lines, inside_steps, first_step>>

yamlvars == <<errors, opened, fixvars>>

\* the locals of parse_jenkinsfile
parsevars == <<content, stage_blocks, bidx, stages, step_counts,
               tool_counts_per_stage, tools_used_per_stage>>

\* the state of a batch run and of the worker pool
batchvars == <<variant, files, fidx, data, workers, keyword_lists>>

\* the locals of extract_vault_info and extract_docker_agent_info
\* the locals of extract_environment_block
envvars == <<start, stack, end>>

extractvars == <<func_blocks, results, envvars>>

\* the state of the validator and of the inventory tools
pipevars == <<yamlvars, parsevars, batchvars, extractvars>>

vars == <<tagvars, pipevars>>

\* the state before any of them has run
InitYamlVars ==
    /\ errors = <<>>
    /\ opened = {}
    /\ fixed_lines = <<>>
    /\ inside_steps = FALSE
    /\ first_step = TRUE

InitParseVars ==
    /\ content = <<>>
    /\ stage_blocks = <<>>
    /\ bidx = 0
    /\ stages = <<>>
    /\ step_counts = <<>>
    /\ tool_counts_per_stage = <<>>
    /\ tools_used_per_stage = <<>>

InitBatchVars ==
    /\ files = <<>>
    /\ fidx = 0
    /\ data = <<>>
    /\ workers = <<>>
    /\ keyword_lists = <<>>

InitExtractVars ==
    /\ func_blocks = <<>>
    /\ results = <<>>
    /\ start = -1
    /\ stack = <<>>
    /\ end = -1

InitPipeVars ==
    /\ InitYamlVars
    /\ InitParseVars
    /\ variant = "root"
    /\ InitBatchVars
    /\ InitExtractVars

----------------------------------------------------------------------------
(* Bounds of the model.                                                    *)

MaxLines == 4
MaxBlockLines == 4
MaxModuleLines == 3
MaxRunLines == 3
MaxRuns == 3
MaxYamlLines == 3
MaxChunks == 4
MaxVaultChunks == 4
MaxBatchFiles == 3
MaxWorkers == 2
MaxMalformedLines == 3
MaxFixChunks == 4
MaxCommentedLines == 3
MaxEnvChunks == 4

----------------------------------------------------------------------------
(* Python's string operations on a line of text.                           *)

Whitespace == {" ", "\t", "\n", "\r"}

LowerAlpha == {"a","b","c","d","e","f","g","h","i","j","k","l","m",
               "n","o","p","q","r","s","t","u","v","w","x","y","z"}

UpperSeq == <<"A","B","C","D","E","F","G","H","I","J","K","L","M",
             "N","O","P","Q","R","S","T","U","V","W","X","Y","Z">>

LowerSeq == <<"a","b","c","d","e","f","g","h","i","j","k","l","m",
             "n","o","p","q","r","s","t","u","v","w","x","y","z">>

UpperToLower == [c \in {UpperSeq[k] : k \in 1..26} |->
                    LowerSeq[CHOOSE k \in 1..26 : UpperSeq[k] = c]]

Digits == {"0","1","2","3","4","5","6","7","8","9"}

\* a character matched by \w
IsWordChar(c) ==
    c \in LowerAlpha \/ c \in DOMAIN UpperToLower \/ c \in Digits \/ c = "_"

\* str.lower() of one character
LowerChar(c) == IF c \in DOMAIN UpperToLower THEN UpperToLower[c] ELSE c

\* str.lower()
Lower(s) == [k \in 1..Len(s) |-> LowerChar(s[k])]

\* s.count(c) for a one-character c
Count(s, c) == Cardinality({k \in 1..Len(s) : s[k] = c})

\* s[k:].startswith(sub), k 0-based
MatchAt(s, k, sub) ==
    /\ k + Len(sub) <= Len(s)
    /\ \A j \in 1..Len(sub) : s[k + j] = sub[j]

\* sub in s
Contains(s, sub) == \E k \in 0..(Len(s) - Len(sub)) : MatchAt(s, k, sub)

StartsWith(s, sub) == MatchAt(s, 0, sub)

\* s.strip()
Strip(s) ==
    LET Ink == {k \in 1..Len(s) : s[k] \notin Whitespace}
    IN  IF Ink = {} THEN <<>>
        ELSE LET lo == CHOOSE k \in Ink : \A j \in Ink : k <= j
                 hi == CHOOSE k \in Ink : \A j \in Ink : j <= k
             IN  SubSeq(s, lo, hi)

W_resource == <<"r","e","s","o","u","r","c","e">>
W_aws      == <<"a","w","s","_">>
W_module   == <<"m","o","d","u","l","e">>
W_tags     == <<"t","a","g","s">>

\* tags_regex = re.compile(r'\btags\s*=', re.IGNORECASE); tags_regex.search(s)
TagsRegexSearch(s) ==
    \E k \in 0..(Len(s) - 4) :
        /\ \A j \in 1..4 : LowerChar(s[k + j]) = W_tags[j]
        /\ (k = 0 \/ ~IsWordChar(s[k]))
        /\ \E e \in (k + 5)..Len(s) :
              /\ s[e] = "="
              /\ \A j \in (k + 5)..(e - 1) : s[j] \in Whitespace

\* re.search(r'^module\s+"([^"]+)"', s): the position of the closing quote,
\* or 0 when there is no match
ModuleMatchEnd(s) ==
    IF ~StartsWith(s, W_module) THEN 0
    ELSE LET Q == {q \in 8..Len(s) :
                      /\ s[q] = "\""
                      /\ \A j \in 7..(q - 1) : s[j] \in Whitespace}
         IN  IF Q = {} THEN 0
             ELSE LET q == CHOOSE x \in Q : TRUE
                      E == {e \in (q + 2)..Len(s) :
                               /\ s[e] = "\""
                               /\ \A j \in (q + 1)..(e - 1) : s[j] # "\""}
                  IN  IF E = {} THEN 0 ELSE CHOOSE e \in E : TRUE

\* module_match.group(1), for a line that matches
ModuleGroup1(s) ==
    LET e == ModuleMatchEnd(s)
        Q == {q \in 8..(e - 2) : s[q] = "\""}
        q == CHOOSE x \in Q : TRUE
    IN  SubSeq(s, q + 1, e - 1)

----------------------------------------------------------------------------
(* The lines the input files are built from.                               *)

ResourceLine ==
    <<"r","e","s","o","u","r","c","e"," ","\"","a","w","s","_","s","3","_",
      "b","u","c","k","e","t","\""," ","\"","x","\""," ","{">>
AttrLine ==
    <<" "," ","b","u","c","k","e","t"," ","="," ","\"","d","e","m","o","\"">>
CloseLine == <<"}">>
TagsLine ==
    <<" "," ","t","a","g","s"," ","="," ","{"," ","N","a","m","e"," ","=",
      " ","\"","x","\""," ","}">>
CommentedTagsLine ==
    <<" "," ","#"," ","t","a","g","s"," ","="," ","{"," ","N","a","m","e",
      " ","="," ","\"","x","\""," ","}">>
ModuleRdsLine ==
    <<"m","o","d","u","l","e"," ","\"","r","d","s","_","p","r","i","m","a",
      "r","y","\""," ","{">>
ModuleNetLine ==
    <<"m","o","d","u","l","e"," ","\"","n","e","t","w","o","r","k","i","n",
      "g","\""," ","{">>
ModuleNoNameLine == <<"m","o","d","u","l","e"," ","r","d","s"," ","{">>
ModuleAwsLine ==
    <<"m","o","d","u","l","e"," ","\"","a","w","s","_","r","e","s","o","u",
      "r","c","e","s","\""," ","{">>
ModuleUpperLine == <<"m","o","d","u","l","e"," ","\"","D","B","\""," ","{">>
OverCloseLine == <<" "," ","}"," ","}">>

\* sequences over S of length at most n
SeqUpTo(S, n) == UNION {[1..k -> S] : k \in 0..n}

BlockCatalogue == {ResourceLine, AttrLine, CloseLine, TagsLine, OverCloseLine}

----------------------------------------------------------------------------
(* get_block_lines(lines, start_index), one action per loop iteration.     *)

\* line.count("{") and line.count("}")
Opens(line) == Count(line, "{")
Closes(line) == Count(line, "}")

\* mutant: the braces of every visited line are counted, started or not
CountAfter_CountsBeforeOpen(started, count, line) ==
    count + Count(line, "{") - Count(line, "}")

\* mutant: the "}" on the line that opens the block are not subtracted
CountAfter_OpeningLineKeepsCloses(started, count, line) ==
    IF ~started
      THEN IF Contains(line, <<"{">>) THEN count + Count(line, "{") ELSE count
      ELSE count + Count(line, "{") - Count(line, "}")

\* lines 27-36: the counter after visiting `line`
CountAfter(started, count, line) ==
    IF ~started
      THEN IF Contains(line, <<"{">>) THEN count + Opens(line) - Closes(line)
                                      ELSE count
      ELSE count + Opens(line) - Closes(line)

\* lines 27-29: block_started after visiting `line`
StartedAfter(started, line) == started \/ Contains(line, <<"{">>)

\* mutant: the break does not wait for the block to start
BreakCondition_IgnoresStarted(started, count) == count <= 0

\* mutant: the scan ends while one brace is still open
BreakCondition_OneStillOpen(started, count) == started /\ count <= 1

\* mutant: a balanced counter does not end the scan, only a negative one
BreakCondition_OnlyBelowZero(started, count) == started /\ count < 0

\* mutant: only an exactly balanced counter ends the scan
BreakCondition_OnlyExactZero(started, count) == started /\ count = 0

\* line 38: the break condition
BreakCondition(started, count) == started /\ count <= 0

\* lines 20-23: entry into get_block_lines
EnterBlock(s, who) ==
    /\ start_index' = s
    /\ gi' = s
    /\ brace_count' = 0
    /\ block_started' = FALSE
    /\ block_lines' = <<>>
    /\ caller' = who
    /\ pc' = "gbl"

\* mutant: a line visited before the first "{" is not appended
GblIter_SkipsLinesBeforeOpen ==
    /\ pc = "gbl"
    /\ gi < Len(lines)
    /\ LET line == lines[gi + 1]
           st == StartedAfter(block_started, line)
           bc == CountAfter(block_started, brace_count, line)
       IN  /\ block_started' = st
           /\ brace_count' = bc
           /\ block_lines' = IF st THEN Append(block_lines, line)
                                   ELSE block_lines
           /\ gi' = gi + 1
           /\ pc' = IF BreakCondition(st, bc) THEN "gbl_ret" ELSE "gbl"
    /\ UNCHANGED <<argv, fs, lines, i, warnings, start_index, caller,
                   exit_code, extractions, examined, runs,
                   pipevars>>

\* lines 24-39: one iteration of the while loop
GblIter ==
    /\ pc = "gbl"
    /\ gi < Len(lines)
    /\ LET line == lines[gi + 1]
           st == StartedAfter(block_started, line)
           bc == CountAfter(block_started, brace_count, line)
       IN  /\ block_started' = st
           /\ brace_count' = bc
           /\ block_lines' = Append(block_lines, line)
           /\ gi' = gi + 1
           /\ pc' = IF BreakCondition(st, bc) THEN "gbl_ret" ELSE "gbl"
    /\ UNCHANGED <<argv, fs, lines, i, warnings, start_index, caller,
                   exit_code, extractions, examined, runs,
                   pipevars>>

\* line 24: the loop condition fails
GblExhausted ==
    /\ pc = "gbl"
    /\ gi >= Len(lines)
    /\ pc' = "gbl_ret"
    /\ UNCHANGED <<argv, fs, lines, i, warnings, start_index, gi, brace_count,
                   block_started, block_lines, caller, exit_code, extractions,
                   examined, runs,
                   pipevars>>

\* the history record of a finished call
Extraction ==
    [start |-> start_index, next |-> gi, block |-> block_lines,
     started |-> block_started, depth |-> brace_count, caller |-> caller]

\* line 40, called on its own: return block_lines, i
GblReturnDirect ==
    /\ pc = "gbl_ret"
    /\ caller = "direct"
    /\ extractions' = Append(extractions, Extraction)
    /\ pc' = "done"
    /\ UNCHANGED <<argv, fs, lines, i, warnings, start_index, gi, brace_count,
                   block_started, block_lines, caller, exit_code, examined,
                   runs,
                   pipevars>>

\* get_block_lines on any line sequence and any start index
InitBlock ==
    /\ lines \in SeqUpTo(BlockCatalogue, MaxBlockLines)
    /\ start_index \in 0..Len(lines)
    /\ gi = start_index
    /\ brace_count = 0
    /\ block_started = FALSE
    /\ block_lines = <<>>
    /\ caller = "direct"
    /\ pc = "gbl"
    /\ argv = <<>>
    /\ fs = <<>>
    /\ i = 0
    /\ warnings = <<>>
    /\ exit_code = -1
    /\ extractions = <<>>
    /\ examined = {}
    /\ runs = <<>>
    /\ InitPipeVars

NextBlock == GblIter \/ GblExhausted \/ GblReturnDirect

SpecBlock == InitBlock /\ [][NextBlock]_vars

\* the loop is a sequential program: a step that can be taken is taken
SpecBlockFair == SpecBlock /\ WF_vars(NextBlock)

----------------------------------------------------------------------------
(* check_aws_tags(file_path) and main().                                   *)

\* line 59
module_keywords ==
    << <<"r","d","s">>, <<"p","o","s","t","g","r","e","s">>, <<"d","b">>,
       <<"d","a","t","a","b","a","s","e">>, <<"e","c","2">>,
       <<"a","u","r","o","r","a">> >>

\* line 66: "resource" in stripped_line and "aws_" in stripped_line
IsResourceHeader(line) ==
    /\ Contains(Strip(line), W_resource)
    /\ Contains(Strip(line), W_aws)

\* line 75: stripped_line.startswith("module")
StartsWithModule(line) == StartsWith(Strip(line), W_module)

\* lines 77-78: module_match is not None
HasModuleName(line) == ModuleMatchEnd(Strip(line)) > 0

\* mutant: the name is not lower-cased
ModuleName_NotLowered(line) == ModuleGroup1(Strip(line))

\* line 79: module_match.group(1).lower()
ModuleName(line) == Lower(ModuleGroup1(Strip(line)))

\* line 81: any(keyword in module_name for keyword in module_keywords)
NameHasKeyword(name) ==
    \E k \in DOMAIN module_keywords : Contains(name, module_keywords[k])

\* mutant: every named module is checked, whatever its name
IsCheckedModule_AnyName(line) ==
    /\ StartsWith(Strip(line), W_module)
    /\ ModuleMatchEnd(Strip(line)) > 0

\* lines 75-81: the line sends check_aws_tags into the module branch's check
IsCheckedModule(line) ==
    /\ StartsWithModule(line)
    /\ HasModuleName(line)
    /\ NameHasKeyword(ModuleName(line))

\* line.strip().startswith("#")
IsCommentLine(line) == StartsWith(Strip(line), <<"#">>)

\* mutant: tags are looked for in the rest of the file, from the header on
HasActiveTags_RestOfFile(block) ==
    \E k \in (i + 1)..Len(lines) :
        /\ ~(StartsWith(Strip(lines[k]), <<"#">>))
        /\ TagsRegexSearch(lines[k])

\* mutant: the comment filter is missing
HasActiveTags_CountsComments(block) ==
    \E k \in DOMAIN block : TagsRegexSearch(block[k])

\* lines 69, 83: any(tags_regex.search(line) for line in block_lines
\*                   if not line.strip().startswith("#"))
HasActiveTags(block) ==
    \E k \in DOMAIN block :
        /\ ~IsCommentLine(block[k])
        /\ TagsRegexSearch(block[k])

\* mutant: the reported line is the 0-based cursor
WarningLine_ZeroBased(cursor) == cursor

\* lines 70, 84: {i+1}
WarningLine(cursor) == cursor + 1

\* lines 70, 84: the warning messages, by their variable parts
ResourceWarning(path, cursor) ==
    [path |-> path, line |-> WarningLine(cursor), kind |-> "resource",
     name |-> <<>>]
ModuleWarning(path, cursor, name) ==
    [path |-> path, line |-> WarningLine(cursor), kind |-> "module",
     name |-> name]

\* mutant: the warning is appended twice
AddWarning_Twice(ws, w) == ws \o <<w, w>>

\* mutant: the new warning is put in front of the list
AddWarning_InFront(ws, w) == <<w>> \o ws

\* lines 70, 84: warnings.append(...)
AddWarning(ws, w) == Append(ws, w)

\* line 54: f.readlines() of a file of the given rows, each line with its "\n"
Readlines(rows) == [k \in DOMAIN rows |-> rows[k] \o <<"\n">>]

\* a file that open() and readlines() read
TextFile(rows) == [kind |-> "text", content |-> Readlines(rows)]

\* files on which open() or readlines() raise: FileNotFoundError,
\* PermissionError, UnicodeDecodeError
BrokenFiles == {[kind |-> k, content |-> <<>>] :
                   k \in {"missing", "denied", "undecodable"}}

\* lines 93-95: no file argument
MainNoArgs ==
    /\ pc = "main"
    /\ Len(argv) < 1
    /\ exit_code' = 0
    /\ pc' = "exit"
    /\ runs' = Append(runs, [path |-> "", result |-> <<>>, code |-> 0])
    /\ UNCHANGED <<argv, fs, lines, i, warnings, start_index, gi, brace_count,
                   block_started, block_lines, caller, extractions, examined,
                   pipevars>>

\* mutant: the warnings list is not created anew by the call
MainCall_KeepsWarnings ==
    /\ pc = "main"
    /\ Len(argv) >= 1
    /\ pc' = "open"
    /\ UNCHANGED <<argv, fs, lines, i, warnings, start_index, gi, brace_count,
                   block_started, block_lines, caller, exit_code, extractions,
                   examined, runs,
                   pipevars>>

\* lines 97-98, 52: main calls check_aws_tags, which begins with an empty list
MainCall ==
    /\ pc = "main"
    /\ Len(argv) >= 1
    /\ warnings' = <<>>
    /\ pc' = "open"
    /\ UNCHANGED <<argv, fs, lines, i, start_index, gi, brace_count,
                   block_started, block_lines, caller, exit_code, extractions,
                   examined, runs,
                   pipevars>>

\* lines 53-54, 61: the file is read
OpenOk ==
    /\ pc = "open"
    /\ fs[argv[1]].kind = "text"
    /\ lines' = fs[argv[1]].content
    /\ i' = 0
    /\ pc' = "chk"
    /\ UNCHANGED <<argv, fs, warnings, start_index, gi, brace_count,
                   block_started, block_lines, caller, exit_code, extractions,
                   examined, runs,
                   pipevars>>

\* lines 53-54: open() or readlines() raises; nothing in check_aws_tags or
\* main catches it, and the interpreter ends with status 1
OpenFails ==
    /\ pc = "open"
    /\ fs[argv[1]].kind # "text"
    /\ exit_code' = 1
    /\ pc' = "exit"
    /\ runs' = Append(runs, [path |-> argv[1], result |-> <<>>, code |-> 1])
    /\ UNCHANGED <<argv, fs, lines, i, warnings, start_index, gi, brace_count,
                   block_started, block_lines, caller, extractions, examined,
                   pipevars>>

\* lines 62-67: the cursor is on a resource header
ChkResource ==
    /\ pc = "chk"
    /\ i < Len(lines)
    /\ IsResourceHeader(lines[i + 1])
    /\ EnterBlock(i, "resource")
    /\ examined' = examined \cup {i}
    /\ UNCHANGED <<argv, fs, lines, i, warnings, exit_code, extractions, runs,
                   pipevars>>

\* lines 75-82: the cursor is on a module line whose name has a keyword
ChkModule ==
    /\ pc = "chk"
    /\ i < Len(lines)
    /\ ~IsResourceHeader(lines[i + 1])
    /\ IsCheckedModule(lines[i + 1])
    /\ EnterBlock(i, "module")
    /\ examined' = examined \cup {i}
    /\ UNCHANGED <<argv, fs, lines, i, warnings, exit_code, extractions, runs,
                   pipevars>>

\* line 87: any other line
ChkAdvance ==
    /\ pc = "chk"
    /\ i < Len(lines)
    /\ ~IsResourceHeader(lines[i + 1])
    /\ ~IsCheckedModule(lines[i + 1])
    /\ i' = i + 1
    /\ examined' = examined \cup {i}
    /\ UNCHANGED <<argv, fs, pc, lines, warnings, start_index, gi, brace_count,
                   block_started, block_lines, caller, exit_code, extractions,
                   runs,
                   pipevars>>

\* lines 62, 89: the loop ends and check_aws_tags returns warnings
ChkDone ==
    /\ pc = "chk"
    /\ i >= Len(lines)
    /\ pc' = "print"
    /\ UNCHANGED <<argv, fs, lines, i, warnings, start_index, gi, brace_count,
                   block_started, block_lines, caller, exit_code, extractions,
                   examined, runs,
                   pipevars>>

\* mutant: the cursor moves to the line after the header, into the block
CursorAfterBlock_LineAfterHeader(header, next_index) == header + 1

\* mutant: the cursor stays on the header after its block was read
CursorAfterBlock_StaysOnHeader(header, next_index) == header

\* line 71, 85: i = next_index
CursorAfterBlock(header, next_index) == next_index

\* lines 67-72: get_block_lines returns to the resource branch
ReturnResource ==
    /\ pc = "gbl_ret"
    /\ caller = "resource"
    /\ warnings' = IF ~HasActiveTags(block_lines)
                     THEN AddWarning(warnings, ResourceWarning(argv[1], i))
                     ELSE warnings
    /\ i' = CursorAfterBlock(i, gi)
    /\ extractions' = Append(extractions, Extraction)
    /\ pc' = "chk"
    /\ UNCHANGED <<argv, fs, lines, start_index, gi, brace_count,
                   block_started, block_lines, caller, exit_code, examined,
                   runs,
                   pipevars>>

\* lines 82-86: get_block_lines returns to the module branch
ReturnModule ==
    /\ pc = "gbl_ret"
    /\ caller = "module"
    /\ warnings' = IF ~HasActiveTags(block_lines)
                     THEN AddWarning(warnings,
                                     ModuleWarning(argv[1], i,
                                                   ModuleName(lines[i + 1])))
                     ELSE warnings
    /\ i' = CursorAfterBlock(i, gi)
    /\ extractions' = Append(extractions, Extraction)
    /\ pc' = "chk"
    /\ UNCHANGED <<argv, fs, lines, start_index, gi, brace_count,
                   block_started, block_lines, caller, exit_code, examined,
                   runs,
                   pipevars>>

\* lines 98-107: main prints the result and calls sys.exit(0)
MainPrint ==
    /\ pc = "print"
    /\ exit_code' = 0
    /\ pc' = "exit"
    /\ runs' = Append(runs, [path |-> argv[1], result |-> warnings, code |-> 0])
    /\ UNCHANGED <<argv, fs, lines, i, warnings, start_index, gi, brace_count,
                   block_started, block_lines, caller, extractions, examined,
                   pipevars>>

Path == "main.tf"

\* the process is started on a file built from the lines of C, at most n
InitWith(C, n) ==
    /\ argv \in {<<>>, <<Path>>}
    /\ fs \in [{Path} -> {TextFile(ls) : ls \in SeqUpTo(C, n)} \cup BrokenFiles]
    /\ pc = "main"
    /\ lines = <<>>
    /\ i = 0
    /\ warnings = <<>>
    /\ start_index = 0
    /\ gi = 0
    /\ brace_count = 0
    /\ block_started = FALSE
    /\ block_lines = <<>>
    /\ caller = "none"
    /\ exit_code = -1
    /\ extractions = <<>>
    /\ examined = {}
    /\ runs = <<>>
    /\ InitPipeVars

TagCatalogue == {ResourceLine, AttrLine, CloseLine, TagsLine,
                 CommentedTagsLine, ModuleRdsLine, ModuleNetLine}

ModuleCatalogue == {ResourceLine, CloseLine, TagsLine, ModuleRdsLine,
                    ModuleNetLine, ModuleNoNameLine, ModuleAwsLine,
                    ModuleUpperLine}

Init == InitWith(TagCatalogue, MaxLines)

InitModule == InitWith(ModuleCatalogue, MaxModuleLines)

Next ==
    \/ MainNoArgs \/ MainCall \/ OpenOk \/ OpenFails
    \/ ChkResource \/ ChkModule \/ ChkAdvance \/ ChkDone
    \/ GblIter \/ GblExhausted
    \/ ReturnResource \/ ReturnModule
    \/ MainPrint

Spec == Init /\ [][Next]_vars

SpecModule == InitModule /\ [][Next]_vars

\* the checker is run again, on either file; what the last run left in the
\* program's variables is still there, and the files are unmodified
OtherPath == "other.tf"

OtherFile == <<ModuleRdsLine, CloseLine, ResourceLine>>

RunCatalogue == {ResourceLine, CloseLine, TagsLine, CommentedTagsLine,
                 ModuleRdsLine}

Rerun ==
    /\ pc = "exit"
    /\ Len(runs) < MaxRuns
    /\ argv' \in {<<Path>>, <<OtherPath>>}
    /\ pc' = "main"
    /\ exit_code' = -1
    /\ extractions' = <<>>
    /\ examined' = {}
    /\ UNCHANGED <<fs, lines, i, warnings, start_index, gi, brace_count,
                   block_started, block_lines, caller, runs,
                   pipevars>>

InitRuns ==
    /\ argv \in {<<Path>>, <<OtherPath>>}
    /\ fs \in {[p \in {Path, OtherPath} |->
                  IF p = Path THEN f ELSE TextFile(OtherFile)] :
               f \in {TextFile(ls) : ls \in SeqUpTo(RunCatalogue, MaxRunLines)}
                       \cup BrokenFiles}
    /\ pc = "main"
    /\ lines = <<>>
    /\ i = 0
    /\ warnings = <<>>
    /\ start_index = 0
    /\ gi = 0
    /\ brace_count = 0
    /\ block_started = FALSE
    /\ block_lines = <<>>
    /\ caller = "none"
    /\ exit_code = -1
    /\ extractions = <<>>
    /\ examined = {}
    /\ runs = <<>>
    /\ InitPipeVars

NextRuns ==
    \/ MainCall \/ OpenOk \/ OpenFails
    \/ ChkResource \/ ChkModule \/ ChkAdvance \/ ChkDone
    \/ GblIter \/ GblExhausted
    \/ ReturnResource \/ ReturnModule
    \/ MainPrint
    \/ Rerun

SpecRuns == InitRuns /\ [][NextRuns]_vars

----------------------------------------------------------------------------
(* Brace arithmetic over a run of lines [a, b), 0-based, used to state the *)
(* properties of get_block_lines.                                          *)

RECURSIVE OpensIn(_, _, _)
OpensIn(ls, a, b) == IF b <= a THEN 0 ELSE OpensIn(ls, a, b - 1) + Opens(ls[b])

RECURSIVE ClosesIn(_, _, _)
ClosesIn(ls, a, b) == IF b <= a THEN 0 ELSE ClosesIn(ls, a, b - 1) + Closes(ls[b])

\* index of the first line at or after s that contains "{", Len(ls) if none
FirstOpen(ls, s) ==
    LET O == {k \in s..(Len(ls) - 1) : Opens(ls[k + 1]) > 0}
    IN  IF O = {} THEN Len(ls) ELSE CHOOSE k \in O : \A j \in O : k <= j

\* "{" minus "}" over the lines [FirstOpen, e)
NetFromOpen(ls, s, e) ==
    OpensIn(ls, FirstOpen(ls, s), e) - ClosesIn(ls, FirstOpen(ls, s), e)

\* the run [s, e) contains a "{" and has as many "{" as "}"
BalancedRun(ls, s, e) ==
    /\ OpensIn(ls, s, e) >= 1
    /\ OpensIn(ls, s, e) = ClosesIn(ls, s, e)

\* the ends e of the balanced runs [s, e)
BalancedEnds(ls, s) == {e \in (s + 1)..Len(ls) : BalancedRun(ls, s, e)}

Least(S) == CHOOSE x \in S : \A y \in S : x <= y

\* the result of the finished direct call
Result == extractions[1]

\* C1 as stated: whenever some run [start, end) contains a "{" and has equal
\* "{" and "}" counts, get_block_lines returns the shortest such run and
\* next_index is its end.
C1_ShortestBalancedRun ==
    (pc = "done" /\ BalancedEnds(lines, start_index) # {}) =>
        LET e == Least(BalancedEnds(lines, start_index))
        IN  /\ Result.next = e
            /\ Result.block = SubSeq(lines, start_index + 1, e)

\* the block that begins at s is balanced line by line: no "}" stands on a
\* line before the first "{" line, and the count from that line on reaches
\* zero at a line end without having been negative at an earlier line end
WellNested(ls, s) ==
    /\ FirstOpen(ls, s) < Len(ls)
    /\ \A k \in s..(FirstOpen(ls, s) - 1) : Closes(ls[k + 1]) = 0
    /\ \E e \in (FirstOpen(ls, s) + 1)..Len(ls) :
          /\ NetFromOpen(ls, s, e) = 0
          /\ \A d \in (FirstOpen(ls, s) + 1)..(e - 1) : NetFromOpen(ls, s, d) > 0

\* C1 amended: for a block that is balanced line by line (WellNested),
\* get_block_lines returns exactly the shortest run [start, end) that
\* contains a "{" and has equal "{" and "}" counts, and next_index = end.
C1_ShortestBalancedRunWellNested ==
    (pc = "done" /\ WellNested(lines, start_index)) =>
        /\ BalancedEnds(lines, start_index) # {}
        /\ Result.next = Least(BalancedEnds(lines, start_index))
        /\ Result.block = SubSeq(lines, start_index + 1, Result.next)

\* C1 witness: a finished call on a well-nested block that spans several
\* lines, begins after the start line and is followed by more lines
C1_Witness ==
    /\ pc = "done"
    /\ WellNested(lines, start_index)
    /\ FirstOpen(lines, start_index) > start_index
    /\ Result.next >= FirstOpen(lines, start_index) + 2
    /\ Result.next < Len(lines)

\* C3: when no line from start_index on contains "{", get_block_lines
\* returns all lines from start_index to the end and next_index = len(lines).
C3_NoOpenerReturnsRest ==
    (pc = "done" /\ FirstOpen(lines, start_index) = Len(lines)) =>
        /\ Result.block = SubSeq(lines, start_index + 1, Len(lines))
        /\ Result.next = Len(lines)
        /\ ~Result.started

\* C3 witness: a finished call over two or more remaining lines, none with
\* "{" and one with "}"
C3_Witness ==
    /\ pc = "done"
    /\ FirstOpen(lines, start_index) = Len(lines)
    /\ Len(lines) - start_index >= 2
    /\ ClosesIn(lines, start_index, Len(lines)) > 0
    /\ Result.next = Len(lines)

\* the line ends e > s at which the block has started and the counter of
\* the source (which counts from the first "{" line) is <= 0
StopPoints(ls, s) ==
    {e \in (s + 1)..Len(ls) : FirstOpen(ls, s) < e /\ NetFromOpen(ls, s, e) <= 0}

\* where the scan from s ends
StopIndex(ls, s) ==
    IF StopPoints(ls, s) = {} THEN Len(ls) ELSE Least(StopPoints(ls, s))

\* C4 (safety part): the finished call stopped, inclusive, at the first
\* visited line after which the block had started and the counter was <= 0,
\* and at the end of the input when there is no such line.
C4_StopsAtFirstClosedLine ==
    pc = "done" =>
        /\ Result.next = StopIndex(lines, start_index)
        /\ Len(Result.block) = Result.next - start_index

\* C4: get_block_lines terminates on every input, and stops where
\* C4_StopsAtFirstClosedLine says.
C4_Terminates == <>(pc = "done") /\ []C4_StopsAtFirstClosedLine

\* C4 witness: a finished call that stopped on an over-closed line (the
\* counter negative) before the end of the input
C4_Witness ==
    /\ pc = "done"
    /\ Result.started
    /\ Result.depth < 0
    /\ Result.next < Len(lines)

----------------------------------------------------------------------------
(* Properties of check_aws_tags and main.                                  *)

\* the extractions check_aws_tags has finished in this run
Finished == {extractions[k] : k \in DOMAIN extractions}

\* a warning names line n
Warned(n) == \E k \in DOMAIN warnings : warnings[k].line = n

\* "tags", optional whitespace, "=" on the line (case-insensitive, not as the
\* tail of a longer identifier)
TagsAssignment(line) == TagsRegexSearch(line)

\* the trimmed line starts with "#"
Commented(line) == Strip(line) # <<>> /\ Strip(line)[1] = "#"

\* the lines of the file in the run [a, b), 0-based
FileRun(a, b) == SubSeq(lines, a + 1, b)

\* C2: a checked resource or module block with a tags assignment on a line
\* that is not a comment gets no "missing" warning; a block all of whose
\* tags assignments stand on comment lines gets one.
C2_CommentAwareTags ==
    \A e \in Finished :
        LET B == FileRun(e.start, e.next)
            T == {k \in DOMAIN B : TagsAssignment(B[k])}
        IN  /\ (\E k \in T : ~Commented(B[k])) => ~Warned(e.start + 1)
            /\ (T # {} /\ \A k \in T : Commented(B[k])) => Warned(e.start + 1)

\* C2 witness: a run in which a resource block whose only tags assignment is
\* commented out was warned about, the block closed by its brace
C2_Witness ==
    /\ pc = "print"
    /\ \E e \in Finished :
          /\ e.caller = "resource"
          /\ e.depth = 0
          /\ \E k \in (e.start + 2)..e.next :
                TagsAssignment(lines[k]) /\ Commented(lines[k])
          /\ Warned(e.start + 1)

\* the keywords of the claim, as text
ClaimedKeywords ==
    { <<"r","d","s">>, <<"p","o","s","t","g","r","e","s">>, <<"d","b">>,
      <<"d","a","t","a","b","a","s","e">>, <<"e","c","2">>,
      <<"a","u","r","o","r","a">> }

\* the trimmed line is  module "<name>"  with a non-empty name
NamedModuleLine(line) == ModuleMatchEnd(Strip(line)) > 0

\* the lower-cased quoted name contains one of the keywords
NameMatches(line) ==
    \E kw \in ClaimedKeywords : Contains(Lower(ModuleGroup1(Strip(line))), kw)

\* a block extraction for a tag check was begun at cursor j
TagChecked(j) ==
    \/ \E e \in Finished : e.start = j
    \/ pc \in {"gbl", "gbl_ret"} /\ start_index = j

\* the line has both markers of a resource header
BothMarkers(line) ==
    Contains(Strip(line), W_resource) /\ Contains(Strip(line), W_aws)

\* C5 as stated: a module line with an extractable name that the cursor
\* reaches has its block tag-checked iff the lower-cased name contains a keyword.
C5_ModuleCheckedIffKeyword ==
    \A j \in examined :
        NamedModuleLine(lines[j + 1]) =>
            (TagChecked(j) <=> NameMatches(lines[j + 1]))

\* C5 amended: the same, for module lines that do not also contain both
\* "resource" and "aws_" (such a line is taken as a resource header first).
C5_ModuleCheckedIffKeywordNotResource ==
    \A j \in examined :
        (NamedModuleLine(lines[j + 1]) /\ ~BothMarkers(lines[j + 1])) =>
            (TagChecked(j) <=> NameMatches(lines[j + 1]))

\* C5 witness: one run met module "rds_primary", which was checked, and
\* module "networking", which was not
C5_Witness ==
    /\ pc = "print"
    /\ \E j, k \in examined :
          /\ lines[j + 1] = Readlines(<<ModuleRdsLine>>)[1] /\ TagChecked(j)
          /\ lines[k + 1] = Readlines(<<ModuleNetLine>>)[1] /\ ~TagChecked(k)

\* a module line that names no keyword: no quoted name, or a name without one
UncheckedModuleLine(line) ==
    /\ StartsWith(Strip(line), W_module)
    /\ (~NamedModuleLine(line) \/ ~NameMatches(line))

\* C6 as stated: at a line starting with "module" that has no extractable
\* name or a name without keyword, no block is consumed.
C6_UncheckedModuleConsumesNoBlock ==
    \A j \in examined : UncheckedModuleLine(lines[j + 1]) => ~TagChecked(j)

\* C6 amended (step): at such a line that does not also contain both
\* "resource" and "aws_", the cursor advances by exactly one line and no
\* extraction is begun.
C6_Step ==
    (/\ pc = "chk"
     /\ i < Len(lines)
     /\ UncheckedModuleLine(lines[i + 1])
     /\ ~BothMarkers(lines[i + 1]))
        => (i' = i + 1 /\ pc' = "chk" /\ extractions' = extractions)

\* C6 amended (consequence): the line after it is examined too
C6_FollowingLineExamined ==
    \A j \in examined :
        (/\ UncheckedModuleLine(lines[j + 1])
         /\ ~BothMarkers(lines[j + 1])
         /\ pc \in {"print", "exit"}
         /\ j + 1 < Len(lines)) => (j + 1) \in examined

\* C6 amended: a line starting with "module" that has no extractable name or
\* a name without keyword, and does not contain both "resource" and "aws_",
\* advances the cursor by one and consumes no block, so the next line is
\* examined.
C6_UncheckedModuleAdvancesOne == [][C6_Step]_vars /\ []C6_FollowingLineExamined

\* C6 witness: a resource nested in the body of an unchecked module was
\* examined and warned about on its own
C6_Witness ==
    /\ pc = "print"
    /\ \E j \in examined :
          /\ UncheckedModuleLine(lines[j + 1])
          /\ ~BothMarkers(lines[j + 1])
          /\ (j + 1) \in examined
          /\ lines[j + 2] = Readlines(<<ResourceLine>>)[1]
          /\ Warned(j + 2)
          /\ ~Warned(j + 1)

\* the header predicates of the two branches
HeaderOfKind(line, kind) ==
    IF kind = "resource" THEN BothMarkers(line)
    ELSE NamedModuleLine(line) /\ NameMatches(line)

Example3 == Readlines(<<ResourceLine, AttrLine, CloseLine>>)
Example4 == {Readlines(<<ResourceLine, AttrLine, TagsLine, CloseLine>>),
             Readlines(<<ResourceLine, TagsLine, AttrLine, CloseLine>>)}

\* C7: every warning names the 1-based line of the header whose extraction
\* produced it; the three-line example gives exactly one warning, for line
\* 1; with an active tags line added inside the block it gives none.
C7_WarningNamesHeaderLine ==
    /\ \A k \in DOMAIN warnings :
          \E e \in Finished :
              /\ warnings[k].line = e.start + 1
              /\ warnings[k].kind = e.caller
              /\ HeaderOfKind(lines[e.start + 1], e.caller)
    /\ (pc = "print" /\ lines = Example3) =>
          (Len(warnings) = 1 /\ warnings[1].line = 1
                             /\ warnings[1].kind = "resource")
    /\ (pc = "print" /\ lines \in Example4) => warnings = <<>>

\* C7 witness: the three-line example was scanned and warned about
C7_Witness ==
    /\ pc = "print"
    /\ lines = Example3
    /\ Len(warnings) = 1

\* C8: two runs over the same unmodified file return the same warnings,
\* whatever was scanned in between.
C8_Deterministic ==
    \A a, b \in DOMAIN runs :
        runs[a].path = runs[b].path => runs[a].result = runs[b].result

\* C8 witness: a file was scanned, then the other file, then the first file
\* again, and both files gave warnings
C8_Witness ==
    /\ Len(runs) = 3
    /\ runs[1].path = Path /\ runs[2].path = OtherPath /\ runs[3].path = Path
    /\ runs[1].result # <<>>
    /\ runs[2].result # <<>>

\* C9: the line numbers of the warnings are strictly increasing.
C9_WarningsInFileOrder ==
    \A a, b \in DOMAIN warnings : a < b => warnings[a].line < warnings[b].line

\* C9 witness: a run that returned two warnings
C9_Witness == pc = "print" /\ Len(warnings) >= 2

\* C10: the command line ends with exit code 0 in every execution.
C10_AlwaysExitsZero == pc = "exit" => exit_code = 0

----------------------------------------------------------------------------
(* The strict YAML indentation validator                                   *)
(* (src/hooks/validate_yaml_indent.py).                                    *)

\* line.lstrip()
LStrip(s) ==
    LET Ink == {k \in 1..Len(s) : s[k] \notin Whitespace}
    IN  IF Ink = {} THEN <<>>
        ELSE SubSeq(s, CHOOSE k \in Ink : \A j \in Ink : k <= j, Len(s))

\* line 13: stripped_line.startswith("-")
StartsWithDash(line) == StartsWith(LStrip(line), <<"-">>)

\* line 13: re.match(r"^\s{4}-", line)
MatchFourThenDash(line) ==
    /\ Len(line) >= 5
    /\ \A k \in 1..4 : line[k] \in Whitespace
    /\ line[5] = "-"

\* line 17: re.match(r"^\s{4,}", line)
MatchFourOrMore(line) ==
    /\ Len(line) >= 4
    /\ \A k \in 1..4 : line[k] \in Whitespace

\* lines 13-18: the errors one line adds, n its 0-based index
LineErrors(line, n) ==
    IF StartsWithDash(line) /\ ~MatchFourThenDash(line)
      THEN <<[line |-> n + 1, kind |-> "dash"]>>
    ELSE IF ~StartsWithDash(line) /\ MatchFourOrMore(line)
      THEN <<[line |-> n + 1, kind |-> "indent"]>>
    ELSE <<>>

\* mutant: the validator ends like the linters, with status 0
ExitStatus_AlwaysZero(errs) == 0

\* lines 30-35: the status sys.exit is called with
ExitStatus(errs) == IF errs # <<>> THEN 1 ELSE 0

\* lines 23-25: no file argument
YamlNoArgs ==
    /\ pc = "y_main"
    /\ Len(argv) < 1
    /\ exit_code' = 1
    /\ pc' = "exit"
    /\ UNCHANGED <<argv, fs, lines, i, warnings, start_index, gi, brace_count,
                   block_started, block_lines, caller, extractions, examined,
                   runs, pipevars>>

\* lines 27-28, 5: the call of check_yaml_indentation
YamlCall ==
    /\ pc = "y_main"
    /\ Len(argv) >= 1
    /\ errors' = <<>>
    /\ pc' = "y_open"
    /\ UNCHANGED <<argv, fs, lines, i, warnings, start_index, gi, brace_count,
                   block_started, block_lines, caller, exit_code, extractions,
                   examined, runs, opened, fixvars, parsevars, batchvars, extractvars>>


\* line 7-8: open(file_path, "r") succeeds and readlines() returns the lines
YamlOpenOk ==
    /\ pc = "y_open"
    /\ argv[1] \in DOMAIN fs
    /\ fs[argv[1]].kind = "text"
    /\ opened' = opened \cup {argv[1]}
    /\ lines' = fs[argv[1]].content
    /\ i' = 0
    /\ pc' = "y_loop"
    /\ UNCHANGED <<argv, fs, warnings, start_index, gi, brace_count,
                   block_started, block_lines, caller, exit_code, extractions,
                   examined, runs, errors, fixvars, parsevars, batchvars, extractvars>>

\* line 7-8: open() or readlines() raises; nothing catches it, the
\* interpreter prints the traceback and ends with status 1
YamlOpenFails ==
    /\ pc = "y_open"
    /\ \/ argv[1] \notin DOMAIN fs
       \/ fs[argv[1]].kind # "text"
    /\ exit_code' = 1
    /\ pc' = "exit"
    /\ UNCHANGED <<argv, fs, lines, i, warnings, start_index, gi, brace_count,
                   block_started, block_lines, caller, extractions, examined,
                   runs, pipevars>>

\* lines 10-18: one iteration of the loop over the lines
YamlLine ==
    /\ pc = "y_loop"
    /\ i < Len(lines)
    /\ errors' = errors \o LineErrors(lines[i + 1], i)
    /\ i' = i + 1
    /\ UNCHANGED <<argv, fs, pc, lines, warnings, start_index, gi, brace_count,
                   block_started, block_lines, caller, exit_code, extractions,
                   examined, runs, opened, fixvars, parsevars, batchvars, extractvars>>

\* lines 20, 28-35: the list is returned and the status chosen
YamlExit ==
    /\ pc = "y_loop"
    /\ i >= Len(lines)
    /\ exit_code' = ExitStatus(errors)
    /\ pc' = "exit"
    /\ UNCHANGED <<argv, fs, lines, i, warnings, start_index, gi, brace_count,
                   block_started, block_lines, caller, extractions, examined,
                   runs, pipevars>>

YamlKeyLine == <<"a", ":">>
YamlDash4Line == <<" ", " ", " ", " ", "-", " ", "b">>
YamlDash2Line == <<" ", " ", "-", " ", "b">>
YamlDash0Line == <<"-", " ", "b">>
YamlDeepLine == <<" ", " ", " ", " ", " ", " ", "c", ":">>
YamlShallowLine == <<" ", " ", "c", ":">>
YamlBlankLine == <<" ", " ", " ">>

YamlCatalogue ==
    {YamlKeyLine, YamlDash4Line, YamlDash2Line, YamlDash0Line, YamlDeepLine,
     YamlShallowLine, YamlBlankLine}

YamlPath == "ci.yml"

InitYaml ==
    /\ argv \in {<<>>, <<YamlPath>>}
    /\ fs \in [{YamlPath} -> {TextFile(rows) : rows \in SeqUpTo(YamlCatalogue, MaxYamlLines)}
                                \cup BrokenFiles]
    /\ pc = "y_main"
    /\ lines = <<>>
    /\ i = 0
    /\ warnings = <<>>
    /\ start_index = 0
    /\ gi = 0
    /\ brace_count = 0
    /\ block_started = FALSE
    /\ block_lines = <<>>
    /\ caller = "none"
    /\ exit_code = -1
    /\ extractions = <<>>
    /\ examined = {}
    /\ runs = <<>>
    /\ InitPipeVars

NextYaml ==
    \/ YamlNoArgs
    \/ YamlCall
    \/ YamlOpenOk
    \/ YamlOpenFails
    \/ YamlLine
    \/ YamlExit

SpecYaml == InitYaml /\ [][NextYaml]_vars


\* check_yaml_indentation returned its list to the caller
YamlReturned == pc = "exit" /\ Len(argv) >= 1 /\ argv[1] \in opened

\* C11 as stated: given a file argument the validator exits 1 if and only if
\* check_yaml_indentation returned a non-empty error list and exits 0 when
\* the list is empty; without an argument it exits 1 and has read nothing.
C11_ExitOneIffErrorsReturned ==
    pc = "exit" =>
        /\ Len(argv) >= 1 =>
              (exit_code = 1 <=> (YamlReturned /\ errors # <<>>))
        /\ (YamlReturned /\ errors = <<>>) => exit_code = 0
        /\ Len(argv) < 1 => (exit_code = 1 /\ opened = {})

\* C11 amended: the validator exits 0 if and only if check_yaml_indentation
\* returned an empty list; it exits 1 when the returned list is non-empty,
\* when reading the file raised, and when no file argument was given, and in
\* that last case nothing has been read.
C11_ExitOneIffErrorsOrReadFailure ==
    pc = "exit" =>
        /\ exit_code \in {0, 1}
        /\ exit_code = 0 <=> (YamlReturned /\ errors = <<>>)
        /\ exit_code = 1 <=>
              (Len(argv) < 1 \/ ~YamlReturned \/ errors # <<>>)
        /\ Len(argv) < 1 => opened = {}

\* a file with three whitespace characters and its newline is reported and
\* the run exits 1
C11_Witness ==
    /\ YamlReturned
    /\ exit_code = 1
    /\ \E k \in DOMAIN errors : errors[k].kind = "indent" /\ errors[k].line = 2
    /\ Len(lines) = 2
    /\ LStrip(lines[2]) = <<>>

----------------------------------------------------------------------------
(* The pipeline inventory: parse_jenkinsfile, collect_data and             *)
(* collect_file_summary (src/pipeline_inventory_tools.py and               *)
(* src/tools/pipeline_inventory_tools.py).  A text is a sequence of        *)
(* characters, positions are 0-based as in the source.                     *)

\* src/pipeline_inventory_tools.py lines 28-32
TOOL_KEYWORDS_root ==
    <<<<"d","o","c","k","e","r"," ","b","u","i","l","d">>,
      <<"d","o","c","k","e","r"," ","p","u","s","h">>,
      <<"f","l","a","k","e","8">>,
      <<"g","r","a","d","l","e","w">>,
      <<"n","e","w","r","e","l","i","c">>,
      <<"n","e","x","u","s"," ","i","q">>,
      <<"n","e","x","u","s","i","q">>,
      <<"n","p","m">>,
      <<"p","r","i","s","m","a","-","c","l","o","u","d">>,
      <<"p","r","i","s","m","a","c","l","o","u","d","p","u","b","l","i","s","h">>,
      <<"p","y","t","h","o","n">>,
      <<"p","y","t","h","o","n","3">>,
      <<"r","v","m",".","r","a","k","e">>,
      <<"s","o","n","a","r","-","s","c","a","n","n","e","r">>,
      <<"s","p","l","u","n","k">>,
      <<"t","e","n","n","a","b","l","e">>,
      <<"t","e","r","r","a","f","o","r","m"," ","a","p","p","l","y">>,
      <<"t","w","i","s","t","l","o","c","k">>>>

\* src/tools/pipeline_inventory_tools.py lines 14-72
TOOL_KEYWORDS_tools ==
    <<<<"a","r","t","i","l","l","e","r","y">>,
      <<"a","n","s","i","b","l","e">>,
      <<"a","n","s","i","b","l","e","-","l","i","n","t">>,
      <<"a","l","e","m","b","i","c">>,
      <<"a","w","s">>,
      <<"a","w","s","-","c","l","i">>,
      <<"a","w","s","c","l","i">>,
      <<"c","u","r","l">>,
      <<"c","y","p","r","e","s","s">>,
      <<"d","o","c","k","e","r","-","c","o","m","p","o","s","e">>,
      <<"d","o","c","k","e","r"," ","b","u","i","l","d">>,
      <<"d","o","c","k","e","r"," ","p","u","s","h">>,
      <<"f","l","a","k","e","8">>,
      <<"g","i","t">>,
      <<"g","r","a","d","l","e">>,
      <<"g","r","a","d","l","e"," ","b","u","i","l","d">>,
      <<"g","r","a","d","l","e"," ","p","u","b","l","i","s","h">>,
      <<"g","r","a","d","l","e"," ","t","e","s","t">>,
      <<"g","r","a","d","l","e"," ","w","r","a","p","p","e","r">>,
      <<"g","r","a","d","l","e"," ","a","s","s","e","m","b","l","e">>,
      <<"g","r","a","d","l","e","w">>,
      <<"j","a","v","a">>,
      <<"j","u","n","i","t">>,
      <<"k","u","b","e","r","n","e","t","e","s">>,
      <<"k","u","b","e","r","n","e","t","e","s"," ","a","p","p","l","y">>,
      <<"k","u","b","e","r","n","e","t","e","s"," ","c","r","e","a","t","e">>,
      <<"k","u","b","e","r","n","e","t","e","s"," ","d","e","l","e","t","e">>,
      <<"j","q">>,
      <<"m","a","k","e"," ","i","n","s","t","a","l","l">>,
      <<"m","a","k","e"," ","g","e","n","e","r","a","t","e">>,
      <<"m","o","l","e","c","u","l","e">>,
      <<"n","e","w","r","e","l","i","c">>,
      <<"n","e","x","u","s","-","i","q">>,
      <<"n","e","x","u","s"," ","i","q">>,
      <<"n","e","x","u","s","i","q">>,
      <<"n","o","d","e">>,
      <<"n","e","w","r","e","l","i","c">>,
      <<"n","p","m">>,
      <<"p","r","i","s","m","a","-","c","l","o","u","d">>,
      <<"p","r","i","s","m","a","c","l","o","u","d","p","u","b","l","i","s","h">>,
      <<"p","y","t","h","o","n">>,
      <<"p","y","t","h","o","n","3">>,
      <<"r","v","m",".","r","a","k","e">>,
      <<"r","u","b","y">>,
      <<"r","u","b","o","c","o","p">>,
      <<"s","n","y","k">>,
      <<"s","o","n","a","r">>,
      <<"s","o","n","a","r","-","s","c","a","n","n","e","r">>,
      <<"s","p","l","u","n","k">>,
      <<"t","e","n","n","a","b","l","e">>,
      <<"t","e","r","r","a","f","o","r","m"," ","a","p","p","l","y">>,
      <<"t","e","r","r","a","f","o","r","m"," ","p","l","a","n">>,
      <<"t","w","i","s","t","l","o","c","k">>,
      <<"t","w","i","s","t","l","o","c","k"," ","p","u","b","l","i","s","h">>,
      <<"t","w","i","s","t","l","o","c","k"," ","s","c","a","n">>,
      <<"w","g","e","t">>,
      <<"y","a","r","n">>>>

TOOL_KEYWORDS(v) == IF v = "root" THEN TOOL_KEYWORDS_root ELSE TOOL_KEYWORDS_tools

\* TOOL_KEYWORDS_LOWER = [tool.lower() for tool in TOOL_KEYWORDS]
TOOL_KEYWORDS_LOWER(v) ==
    [k \in DOMAIN TOOL_KEYWORDS(v) |-> Lower(TOOL_KEYWORDS(v)[k])]

Quotes == {"'", "\""}

W_stage == <<"s","t","a","g","e">>
W_steps == <<"s","t","e","p","s">>

\* s[k], "" outside the text
CharAt(s, k) == IF k >= 0 /\ k < Len(s) THEN s[k + 1] ELSE ""

\* \s* from position k: the first position at or after k without whitespace
SkipSpace(s, k) ==
    LET R == {j \in k..(Len(s) - 1) : s[j + 1] \notin Whitespace}
    IN  IF R = {} THEN Len(s) ELSE CHOOSE j \in R : \A h \in R : j <= h

\* stage\s*\(['\"] matched at p: the position after the quote, -1 if no match
StageNameStart(s, p) ==
    IF ~MatchAt(s, p, W_stage) THEN -1
    ELSE LET k == SkipSpace(s, p + 5)
         IN  IF CharAt(s, k) = "(" /\ CharAt(s, k + 1) \in Quotes
               THEN k + 2 ELSE -1

\* positions of the "}" after position k
ClosesAfter(s, k) == {j \in (k + 1)..(Len(s) - 1) : s[j + 1] = "}"}

\* lines 38: .+?['\"]\)\s*\{.*?\} from the name start n, with DOTALL: the
\* positions e of a closing quote after which the rest of the pattern matches
HeaderEnds(s, n) ==
    {e \in (n + 1)..(Len(s) - 1) :
        /\ s[e + 1] \in Quotes
        /\ CharAt(s, e + 1) = ")"
        /\ CharAt(s, SkipSpace(s, e + 2)) = "{"
        /\ ClosesAfter(s, SkipSpace(s, e + 2)) # {}}

\* the pattern of line 38 matches at p
StageMatches(s, p) ==
    /\ StageNameStart(s, p) >= 0
    /\ HeaderEnds(s, StageNameStart(s, p)) # {}

\* the match of the pattern of line 38 at p: both quantifiers are lazy, the
\* name ends at the first quote that lets the rest match and the block at
\* the first "}" after the "{"
StageMatch(s, p) ==
    LET n == StageNameStart(s, p)
        H == HeaderEnds(s, n)
        e == CHOOSE x \in H : \A y \in H : x <= y
        open == SkipSpace(s, e + 2)
        C == ClosesAfter(s, open)
    IN  [start |-> p, open |-> open,
         end |-> CHOOSE x \in C : \A y \in C : x <= y]

\* re.findall: the leftmost match at or after pos, then on from its end
RECURSIVE StageSpans(_, _)
StageSpans(s, pos) ==
    LET P == {p \in pos..(Len(s) - 1) : StageMatches(s, p)}
    IN  IF P = {} THEN <<>>
        ELSE LET m == StageMatch(s, CHOOSE p \in P : \A q \in P : p <= q)
             IN  <<m>> \o StageSpans(s, m.end + 1)

\* line 38: stage_blocks
StageBlocks(s) ==
    LET sp == StageSpans(s, 0)
    IN  [k \in DOMAIN sp |-> SubSeq(s, sp[k].start + 1, sp[k].end + 1)]

\* line 41: the pattern stage\s*\(['\"](.+?)['\"]\) at p, no DOTALL: the
\* positions of a closing quote followed by ")" with no newline in the name
NameEnds(b, n) ==
    {e \in (n + 1)..(Len(b) - 1) :
        /\ b[e + 1] \in Quotes
        /\ CharAt(b, e + 1) = ")"
        /\ \A j \in n..(e - 1) : b[j + 1] # "\n"}

NameMatchesAt(b, p) ==
    /\ StageNameStart(b, p) >= 0
    /\ NameEnds(b, StageNameStart(b, p)) # {}

\* line 41: re.search finds a match
StageNameFound(b) == \E p \in 0..(Len(b) - 1) : NameMatchesAt(b, p)

\* line 43: stage_name_match.group(1)
StageName(b) ==
    LET P == {p \in 0..(Len(b) - 1) : NameMatchesAt(b, p)}
        p == CHOOSE x \in P : \A y \in P : x <= y
        n == StageNameStart(b, p)
        E == NameEnds(b, n)
        e == CHOOSE x \in E : \A y \in E : x <= y
    IN  SubSeq(b, n + 1, e)

\* line 44: len(re.findall(r"\s*steps\s*{", block))
StepsInStage(b) ==
    Cardinality({p \in 0..(Len(b) - 1) :
                    /\ MatchAt(b, p, W_steps)
                    /\ CharAt(b, SkipSpace(b, p + 5)) = "{"})

\* \b at position k
WordBoundary(s, k) == IsWordChar(CharAt(s, k - 1)) # IsWordChar(CharAt(s, k))

\* line 47: the pattern \b<tool>\b matches at p; the tool is not escaped, so
\* its "." matches any character but a newline
ToolAt(b, p, tool) ==
    /\ p + Len(tool) <= Len(b)
    /\ \A j \in 1..Len(tool) :
          IF tool[j] = "." THEN b[p + j] # "\n" ELSE b[p + j] = tool[j]
    /\ WordBoundary(b, p)
    /\ WordBoundary(b, p + Len(tool))

\* the matches re.findall counts among the match positions P: leftmost
\* first, the next one not before the end of the previous one
RECURSIVE NonOverlapping(_, _, _)
NonOverlapping(P, pos, n) ==
    LET R == {p \in P : p >= pos}
    IN  IF R = {} THEN 0
        ELSE 1 + NonOverlapping(P, (CHOOSE p \in R : \A q \in R : p <= q) + n, n)

\* line 47: len(re.findall(rf"\b{tool}\b", block_lower))
ToolCount(tool, b) ==
    NonOverlapping({p \in 0..(Len(b) - Len(tool)) : ToolAt(b, p, tool)},
                   0, Len(tool))

\* line 46-47: tool_counts, kws being TOOL_KEYWORDS_LOWER
ToolCountsOf(kws, b) ==
    LET block_lower == Lower(b)
    IN  [k \in DOMAIN kws |-> ToolCount(kws[k], block_lower)]

ToolCounts(v, b) == ToolCountsOf(TOOL_KEYWORDS_LOWER(v), b)

\* line 49: if count > 0
IsUsed(count) == count > 0

\* line 49: [TOOL_KEYWORDS[i] for i, count in enumerate(tool_counts) if count > 0],
\* here for the first n tools
RECURSIVE ToolsUsed(_, _, _)
ToolsUsed(kws, counts, n) ==
    IF n = 0 THEN <<>>
    ELSE ToolsUsed(kws, counts, n - 1)
            \o (IF IsUsed(counts[n]) THEN <<kws[n]>> ELSE <<>>)

\* sep.join(xs)
RECURSIVE Join(_, _)
Join(sep, xs) ==
    IF xs = <<>> THEN <<>>
    ELSE IF Len(xs) = 1 THEN xs[1]
    ELSE xs[1] \o sep \o Join(sep, Tail(xs))

CommaSpace == <<",", " ">>

\* a byte that is not valid UTF-8, and the character latin-1 decodes it to
BadByte == "0xFF"
Latin1Char == "U+00FF"

\* bytes.decode("utf-8", errors="ignore")
DecodeIgnore(bytes) == SelectSeq(bytes, LAMBDA c : c # BadByte)

\* bytes.decode("utf-8") does not raise UnicodeDecodeError
DecodesStrict(bytes) == \A k \in DOMAIN bytes : bytes[k] # BadByte

\* bytes.decode("latin-1")
DecodeLatin1(bytes) ==
    [k \in DOMAIN bytes |-> IF bytes[k] = BadByte THEN Latin1Char ELSE bytes[k]]

\* a file of the given bytes, and the paths that cannot be opened
ByteFile(bytes) == [kind |-> "text", content |-> bytes]
MissingFile == [kind |-> "missing", content |-> <<>>]
DeniedFile == [kind |-> "denied", content |-> <<>>]

\* the file the loop of the batch run is at
CurrentPath == files[fidx + 1]
CurrentFile == fs[CurrentPath]

\* collect_data line 58-60, collect_file_summary line 77-79: the next file
\* of the iteration is handed to parse_jenkinsfile
ParseNextFile ==
    /\ pc = "batch"
    /\ caller \in {"collect_data", "collect_file_summary"}
    /\ fidx < Len(files)
    /\ pc' = "pj_read"
    /\ content' = <<>>
    /\ stage_blocks' = <<>>
    /\ bidx' = 0
    /\ stages' = <<>>
    /\ step_counts' = <<>>
    /\ tool_counts_per_stage' = <<>>
    /\ tools_used_per_stage' = <<>>
    /\ UNCHANGED <<argv, fs, lines, i, warnings, start_index, gi, brace_count,
                   block_started, block_lines, caller, exit_code, extractions,
                   examined, runs, yamlvars, batchvars, extractvars>>

\* line 37: path.read_text(encoding="utf-8", errors="ignore") returns
PjReadOk ==
    /\ pc = "pj_read"
    /\ CurrentFile.kind = "text"
    /\ content' = DecodeIgnore(CurrentFile.content)
    /\ opened' = opened \cup {CurrentPath}
    /\ pc' = "pj_findall"
    /\ UNCHANGED <<argv, fs, lines, i, warnings, start_index, gi, brace_count,
                   block_started, block_lines, caller, exit_code, extractions,
                   examined, runs, errors, fixvars, stage_blocks, bidx, stages,
                   step_counts, tool_counts_per_stage, tools_used_per_stage,
                   batchvars, extractvars>>

\* lines 37, 52-54: read_text raises, the except clause logs and returns
\* four empty lists
PjReadFails ==
    /\ pc = "pj_read"
    /\ CurrentFile.kind # "text"
    /\ stages' = <<>>
    /\ step_counts' = <<>>
    /\ tool_counts_per_stage' = <<>>
    /\ tools_used_per_stage' = <<>>
    /\ pc' = "pj_ret"
    /\ UNCHANGED <<argv, fs, lines, i, warnings, start_index, gi, brace_count,
                   block_started, block_lines, caller, exit_code, extractions,
                   examined, runs, yamlvars, content, stage_blocks, bidx,
                   batchvars, extractvars>>

\* lines 38-39: re.findall and the four empty lists
PjFindall ==
    /\ pc = "pj_findall"
    /\ stage_blocks' = StageBlocks(content)
    /\ bidx' = 0
    /\ stages' = <<>>
    /\ step_counts' = <<>>
    /\ tool_counts_per_stage' = <<>>
    /\ tools_used_per_stage' = <<>>
    /\ pc' = "pj_loop"
    /\ UNCHANGED <<argv, fs, lines, i, warnings, start_index, gi, brace_count,
                   block_started, block_lines, caller, exit_code, extractions,
                   examined, runs, yamlvars, content, batchvars, extractvars>>

\* lines 40-50: one iteration of the loop over the blocks
PjStage ==
    /\ pc = "pj_loop"
    /\ bidx < Len(stage_blocks)
    /\ LET block == stage_blocks[bidx + 1]
           tool_counts == ToolCounts(variant, block)
           tools_used == ToolsUsed(TOOL_KEYWORDS(variant), tool_counts,
                                   Len(tool_counts))
       IN  IF StageNameFound(block)
             THEN /\ stages' = Append(stages, StageName(block))
                  /\ step_counts' = Append(step_counts, StepsInStage(block))
                  /\ tool_counts_per_stage' =
                        Append(tool_counts_per_stage, tool_counts)
                  /\ tools_used_per_stage' =
                        Append(tools_used_per_stage, Join(CommaSpace, tools_used))
             ELSE UNCHANGED <<stages, step_counts, tool_counts_per_stage,
                              tools_used_per_stage>>
    /\ bidx' = bidx + 1
    /\ UNCHANGED <<argv, fs, pc, lines, i, warnings, start_index, gi,
                   brace_count, block_started, block_lines, caller, exit_code,
                   extractions, examined, runs, yamlvars, content, stage_blocks,
                   batchvars, extractvars>>

\* line 51: return
PjReturn ==
    /\ pc = "pj_loop"
    /\ bidx >= Len(stage_blocks)
    /\ pc' = "pj_ret"
    /\ UNCHANGED <<argv, fs, lines, i, warnings, start_index, gi, brace_count,
                   block_started, block_lines, caller, exit_code, extractions,
                   examined, runs, pipevars>>

\* the characters of the tool keywords in code point order
CodeOrder ==
    <<" ", "-", ".", "0","1","2","3","4","5","6","7","8","9",
      "a","b","c","d","e","f","g","h","i","j","k","l","m",
      "n","o","p","q","r","s","t","u","v","w","x","y","z">>

Ord(c) == CHOOSE k \in DOMAIN CodeOrder : CodeOrder[k] = c

\* a < b for two strings
StrLess(a, b) ==
    \/ Len(a) < Len(b) /\ a = SubSeq(b, 1, Len(a))
    \/ \E k \in 1..Len(a) :
          /\ k <= Len(b)
          /\ \A j \in 1..(k - 1) : a[j] = b[j]
          /\ Ord(a[k]) < Ord(b[k])

\* sorted(S) for a set of strings
RECURSIVE Sorted(_)
Sorted(S) ==
    IF S = {} THEN <<>>
    ELSE LET m == CHOOSE x \in S : \A y \in S \ {x} : StrLess(x, y)
         IN  <<m>> \o Sorted(S \ {m})

\* re.split(r", |\n", s) from position k on, cur the piece collected so far
RECURSIVE SplitAt(_, _, _)
SplitAt(s, k, cur) ==
    IF k >= Len(s) THEN <<cur>>
    ELSE IF MatchAt(s, k, CommaSpace) THEN <<cur>> \o SplitAt(s, k + 2, <<>>)
    ELSE IF s[k + 1] = "\n" THEN <<cur>> \o SplitAt(s, k + 1, <<>>)
    ELSE SplitAt(s, k + 1, Append(cur, s[k + 1]))

\* line 82: re.split(r", |\n", tools_used)
ReSplit(s) == SplitAt(s, 0, <<>>)

\* mutant: the last element is left out of the sum
RECURSIVE Sum_DropsLast(_)
Sum_DropsLast(xs) ==
    IF Len(xs) <= 1 THEN 0 ELSE Head(xs) + Sum_DropsLast(Tail(xs))

\* sum(xs)
RECURSIVE Sum(_)
Sum(xs) == IF xs = <<>> THEN 0 ELSE Head(xs) + Sum(Tail(xs))

\* {tool: count for tool, count in zip(TOOL_KEYWORDS, counts)}: a later
\* entry of the same tool replaces the earlier one
ZipDict(kws, counts) ==
    [t \in {kws[k] : k \in DOMAIN kws} |->
        LET K == {k \in DOMAIN kws : kws[k] = t}
        IN  counts[CHOOSE k \in K : \A j \in K : j <= k]]

\* collect_data lines 61-72: the rows of the file's stages
StageRows(path, v) ==
    [k \in DOMAIN stages |->
        [path |-> path,
         stage |-> stages[k],
         steps |-> step_counts[k],
         tools_used |-> tools_used_per_stage[k],
         counts |-> ZipDict(TOOL_KEYWORDS(v), tool_counts_per_stage[k])]]

\* collect_file_summary line 81: total_tool_counts
TotalToolCounts(v) ==
    [t \in DOMAIN TOOL_KEYWORDS(v) |->
        Sum([k \in DOMAIN tool_counts_per_stage |-> tool_counts_per_stage[k][t]])]

\* collect_file_summary line 82: tools_used_set
ToolsUsedSet ==
    {tool \in UNION {{ReSplit(tools_used_per_stage[k])[j] :
                        j \in DOMAIN ReSplit(tools_used_per_stage[k])} :
                     k \in DOMAIN tools_used_per_stage} : tool # <<>>}

\* collect_file_summary lines 80-92: the row of the file
SummaryRow(path, v) ==
    [path |-> path,
     total_steps |-> Sum(step_counts),
     tools_used |-> Join(CommaSpace, Sorted(ToolsUsedSet)),
     counts |-> ZipDict(TOOL_KEYWORDS(v), TotalToolCounts(v))]

\* collect_data lines 60-72: the rows of the parsed file are appended
CollectRows ==
    /\ pc = "pj_ret"
    /\ caller = "collect_data"
    /\ data' = data \o StageRows(CurrentPath, variant)
    /\ fidx' = fidx + 1
    /\ pc' = "batch"
    /\ UNCHANGED <<argv, fs, lines, i, warnings, start_index, gi, brace_count,
                   block_started, block_lines, caller, exit_code, extractions,
                   examined, runs, yamlvars, parsevars, variant, files, workers,
                   keyword_lists, extractvars>>

\* collect_file_summary lines 79-93: the row of the parsed file is appended
CollectSummary ==
    /\ pc = "pj_ret"
    /\ caller = "collect_file_summary"
    /\ data' = Append(data, SummaryRow(CurrentPath, variant))
    /\ fidx' = fidx + 1
    /\ pc' = "batch"
    /\ UNCHANGED <<argv, fs, lines, i, warnings, start_index, gi, brace_count,
                   block_started, block_lines, caller, exit_code, extractions,
                   examined, runs, yamlvars, parsevars, variant, files, workers,
                   keyword_lists, extractvars>>

\* collect_data line 73, collect_file_summary line 94, run_inventory lines
\* 50-51: the iteration is over, the rows are returned and written
BatchDone ==
    /\ pc = "batch"
    /\ fidx >= Len(files)
    /\ exit_code' = 0
    /\ pc' = "exit"
    /\ UNCHANGED <<argv, fs, lines, i, warnings, start_index, gi, brace_count,
                   block_started, block_lines, caller, extractions, examined,
                   runs, pipevars>>

\* pieces of pipeline text
\* stage("Build") {
StageBuildChunk ==
    <<"s","t","a","g","e","(","\"","B","u","i","l","d","\"",")"," ","{">>

\*  steps { sh "terraform apply" }
StepsTerraformChunk ==
    <<" ","s","t","e","p","s"," ","{"," ","s","h"," ","\"","t","e","r","r",
      "a","f","o","r","m"," ","a","p","p","l","y","\""," ","}">>

\*  post { sh "npm test" }
PostNpmChunk ==
    <<" ","p","o","s","t"," ","{"," ","s","h"," ","\"","n","p","m"," ","t",
      "e","s","t","\""," ","}">>

\*  }
CloseChunk ==
    <<" ","}">>

\*  sh "NewRelic"
NewRelicChunk ==
    <<" ","s","h"," ","\"","N","e","w","R","e","l","i","c","\"">>

ChunkCatalogue ==
    {StageBuildChunk, StepsTerraformChunk, PostNpmChunk, CloseChunk,
     NewRelicChunk}

RECURSIVE Flatten(_)
Flatten(xs) == IF xs = <<>> THEN <<>> ELSE Head(xs) \o Flatten(Tail(xs))

JenkinsPath == "Jenkinsfile"

\* one pipeline file under the root directory, scanned by collect_data of
\* either module or by collect_file_summary
InitStages ==
    /\ argv = <<"repos">>
    /\ files = <<JenkinsPath>>
    /\ fs \in [{JenkinsPath} ->
                 {ByteFile(Flatten(cs)) : cs \in SeqUpTo(ChunkCatalogue, MaxChunks)}
                   \cup {MissingFile}]
    /\ variant \in {"root", "tools"}
    /\ caller \in {"collect_data", "collect_file_summary"}
    /\ variant = "tools" => caller = "collect_data"
    /\ pc = "batch"
    /\ lines = <<>>
    /\ i = 0
    /\ warnings = <<>>
    /\ start_index = 0
    /\ gi = 0
    /\ brace_count = 0
    /\ block_started = FALSE
    /\ block_lines = <<>>
    /\ exit_code = -1
    /\ extractions = <<>>
    /\ examined = {}
    /\ runs = <<>>
    /\ InitYamlVars
    /\ InitParseVars
    /\ InitExtractVars
    /\ fidx = 0
    /\ data = <<>>
    /\ workers = <<>>
    /\ keyword_lists = <<>>

NextStages ==
    \/ ParseNextFile
    \/ PjReadOk
    \/ PjReadFails
    \/ PjFindall
    \/ PjStage
    \/ PjReturn
    \/ CollectRows
    \/ CollectSummary
    \/ BatchDone

SpecStages == InitStages /\ [][NextStages]_vars

\* "{" minus "}" over the characters at positions a..b of s
NetBraces(s, a, b) ==
    Cardinality({j \in a..b : s[j + 1] = "{"})
        - Cardinality({j \in a..b : s[j + 1] = "}"})

\* the positions at which the block opened at position open is closed
BalancePoints(s, open) ==
    {j \in (open + 1)..(Len(s) - 1) : NetBraces(s, open, j) = 0}

\* parse_jenkinsfile has found the blocks of a file it could read
BlocksFound == pc \in {"pj_loop", "pj_ret"} /\ CurrentFile.kind = "text"

\* C12: every block parse_jenkinsfile captures for a stage declaration is
\* the full brace-balanced block, from "stage" to the "}" that matches the
\* "{" of the stage, also when the body holds nested brace blocks.
C12_CapturesBalancedBlock ==
    BlocksFound =>
        \A k \in DOMAIN stage_blocks :
            LET sp == StageSpans(content, 0)[k]
            IN  /\ BalancePoints(content, sp.open) # {}
                /\ stage_blocks[k] =
                      SubSeq(content, sp.start + 1,
                             Least(BalancePoints(content, sp.open)) + 1)

\* the elements of a sequence
Elems(xs) == {xs[k] : k \in DOMAIN xs}

\* the list of tools a stage's tools-used string names
UsedList(k) ==
    SelectSeq(ReSplit(tools_used_per_stage[k]), LAMBDA t : t # <<>>)

\* parse_jenkinsfile has returned the records of a file it could read
ParseReturned == pc = "pj_ret" /\ CurrentFile.kind = "text"

W_terraform_apply ==
    <<"t","e","r","r","a","f","o","r","m"," ","a","p","p","l","y">>

\* stage("Build") { steps { sh "terraform apply" } }
ExampleStage == StageBuildChunk \o StepsTerraformChunk \o CloseChunk

\* C13: in every stage record a tool keyword is in the tools-used list if
\* and only if its count for the stage is greater than 0, and each used tool
\* is listed once; the example stage gives name Build, step count 1 and
\* tools used exactly {terraform apply}.
C13_ToolsUsedIffCounted ==
    ParseReturned =>
        /\ \A k \in DOMAIN stages :
              /\ \A t \in DOMAIN TOOL_KEYWORDS(variant) :
                    TOOL_KEYWORDS(variant)[t] \in Elems(UsedList(k))
                        <=> tool_counts_per_stage[k][t] > 0
              /\ \A a, b \in DOMAIN UsedList(k) :
                    UsedList(k)[a] = UsedList(k)[b] => a = b
        /\ content = ExampleStage =>
              /\ stages = <<<<"B","u","i","l","d">>>>
              /\ step_counts = <<1>>
              /\ Elems(UsedList(1)) = {W_terraform_apply}

\* the sum of the first n values of xs
RECURSIVE TotalOf(_, _)
TotalOf(xs, n) == IF n = 0 THEN 0 ELSE TotalOf(xs, n - 1) + xs[n]

\* the tools a tools-used string names
ListedIn(str) == {t \in Elems(ReSplit(str)) : t # <<>>}

\* collect_file_summary has appended the row of the file
SummaryBuilt ==
    /\ pc \in {"batch", "exit"}
    /\ caller = "collect_file_summary"
    /\ fidx = 1

\* C17: the summary row of a file has as total step count the sum of the
\* step counts of its stages, as total of each tool the sum of the tool's
\* stage counts, and as tools-used set the union of the stages' tools-used
\* sets, so that a tool is listed if and only if its file total is > 0.
C17_SummaryAggregatesStages ==
    SummaryBuilt =>
        LET row == data[1]
            kws == TOOL_KEYWORDS(variant)
        IN  /\ row.total_steps = TotalOf(step_counts, Len(step_counts))
            /\ \A t \in DOMAIN kws :
                  row.counts[kws[t]] =
                      TotalOf([k \in DOMAIN tool_counts_per_stage |->
                                  tool_counts_per_stage[k][t]],
                              Len(tool_counts_per_stage))
            /\ ListedIn(row.tools_used) =
                  UNION {ListedIn(tools_used_per_stage[k]) :
                            k \in DOMAIN tools_used_per_stage}
            /\ \A t \in DOMAIN kws :
                  kws[t] \in ListedIn(row.tools_used) <=> row.counts[kws[t]] > 0

\* a file of two stages with one steps opener and one "terraform apply"
\* each has the totals 2 and 2
C17_Witness ==
    /\ SummaryBuilt
    /\ Len(stages) = 2
    /\ step_counts = <<1, 1>>
    /\ data[1].total_steps = 2
    /\ data[1].counts[W_terraform_apply] = 2
    /\ data[1].tools_used = W_terraform_apply

----------------------------------------------------------------------------
(* The vault inventory: extract_vault_info                                 *)
(* (src/pipeline_inventory_vaults.py, the same reading and the same        *)
(* func_blocks pattern in src/tools/pipeline_inventory_vaults.py), run     *)
(* over the files by run_inventory (src/utils.py).                         *)

W_def == <<"d","e","f">>

\* \w of a str pattern: the decoded byte 0xFF is a letter
IsWordCharU(c) == IsWordChar(c) \/ c = Latin1Char

\* \w+ from position k: the first position at or after k without a word character
WordRunEnd(s, k) ==
    LET R == {j \in k..(Len(s) - 1) : ~IsWordCharU(s[j + 1])}
    IN  IF R = {} THEN Len(s) ELSE CHOOSE j \in R : \A h \in R : j <= h

\* the first position at or after k that holds c, -1 if there is none
FindChar(s, k, c) ==
    LET R == {j \in k..(Len(s) - 1) : s[j + 1] = c}
    IN  IF R = {} THEN -1 ELSE CHOOSE j \in R : \A h \in R : j <= h

\* lines 48-49: def\s+\w+\s*\([^)]*\)\s*\{ matched at p: the position of the
\* "{", -1 if there is no match
FuncOpen(s, p) ==
    IF ~MatchAt(s, p, W_def) THEN -1
    ELSE LET n == SkipSpace(s, p + 3)
             q == SkipSpace(s, WordRunEnd(s, n))
             c == FindChar(s, q + 1, ")")
             o == SkipSpace(s, c + 1)
         IN  IF n = p + 3 \/ ~IsWordCharU(CharAt(s, n)) THEN -1
             ELSE IF CharAt(s, q) # "(" \/ c < 0 THEN -1
             ELSE IF CharAt(s, o) = "{" THEN o ELSE -1

\* line 49: ([\s\S]*?)^\s*\} after the "{" at o, with MULTILINE: the
\* positions b at which a line starts that holds, after whitespace, a "}"
BodyEnds(s, o) ==
    {b \in (o + 1)..(Len(s) - 1) :
        /\ s[b] = "\n"
        /\ CharAt(s, SkipSpace(s, b)) = "}"}

\* the pattern of lines 48-49 matches at p
FuncMatches(s, p) == FuncOpen(s, p) >= 0 /\ BodyEnds(s, FuncOpen(s, p)) # {}

\* its match: the body is lazy and ends at the first such line start
FuncMatch(s, p) ==
    LET o == FuncOpen(s, p)
        B == BodyEnds(s, o)
        b == CHOOSE x \in B : \A y \in B : x <= y
    IN  [start |-> p, open |-> o, body_end |-> b, end |-> SkipSpace(s, b)]

\* re.findall: the leftmost match at or after pos, then on from its end
RECURSIVE FuncSpans(_, _)
FuncSpans(s, pos) ==
    LET P == {p \in pos..(Len(s) - 1) : FuncMatches(s, p)}
    IN  IF P = {} THEN <<>>
        ELSE LET m == FuncMatch(s, CHOOSE p \in P : \A q \in P : p <= q)
             IN  <<m>> \o FuncSpans(s, m.end + 1)

\* lines 48-52: func_blocks, the pairs (func_def, func_body)
FuncBlocks(s) ==
    LET sp == FuncSpans(s, 0)
    IN  [k \in DOMAIN sp |->
            [func_def |-> SubSeq(s, sp[k].start + 1, sp[k].end + 1),
             func_body |-> SubSeq(s, sp[k].open + 2, sp[k].body_end)]]

\* line 82-83: re.search(r"def\s+(\w+)", func_def).group(1)
FuncName(func_def) ==
    LET P == {p \in 0..(Len(func_def) - 1) :
                /\ MatchAt(func_def, p, W_def)
                /\ SkipSpace(func_def, p + 3) > p + 3
                /\ IsWordCharU(CharAt(func_def, SkipSpace(func_def, p + 3)))}
        p == CHOOSE x \in P : \A y \in P : x <= y
        n == SkipSpace(func_def, p + 3)
    IN  SubSeq(func_def, n + 1, WordRunEnd(func_def, n))

W_environment_open ==
    <<"e","n","v","i","r","o","n","m","e","n","t"," ","{">>
W_vault == <<"v","a","u","l","t">>

\* s.find(sub)
Find(s, sub) ==
    LET R == {k \in 0..(Len(s) - Len(sub)) : MatchAt(s, k, sub)}
    IN  IF R = {} THEN -1 ELSE CHOOSE k \in R : \A h \in R : k <= h

\* lines 60-67: the position at which the stack of the scan from there gets
\* empty, -1 if it never does
EnvEnd(s, from) ==
    LET R == {j \in from..(Len(s) - 1) :
                /\ s[j + 1] = "}"
                /\ Cardinality({h \in from..j : s[h + 1] = "{"})
                     = Cardinality({h \in from..j : s[h + 1] = "}"})}
    IN  IF R = {} THEN -1 ELSE CHOOSE j \in R : \A h \in R : j <= h

\* lines 54-68: extract_environment_block(content), <<>> standing for None
EnvBlock(s) ==
    LET at == Find(Lower(s), W_environment_open)
    IN  IF at = -1 \/ EnvEnd(s, at) = -1 THEN <<>>
        ELSE Strip(SubSeq(s, at + Len(W_environment_open) + 1,
                          EnvEnd(s, at)))

\* [A-Za-z0-9_]
IsAsciiWordChar(c) == IsWordChar(c)

\* [A-Za-z0-9_]+ from position k: the first position without such a character
AsciiWordRunEnd(s, k) ==
    LET R == {j \in k..(Len(s) - 1) : ~IsAsciiWordChar(s[j + 1])}
    IN  IF R = {} THEN Len(s) ELSE CHOOSE j \in R : \A h \in R : j <= h

\* the first position at or after k that holds a quote, -1 if there is none
FindQuote(s, k) ==
    LET R == {j \in k..(Len(s) - 1) : s[j + 1] \in Quotes}
    IN  IF R = {} THEN -1 ELSE CHOOSE j \in R : \A h \in R : j <= h

\* lines 72-75: ([A-Za-z0-9_]+)\s*=\s*['\"]([^'\"]+)['\"] matches at p
AssignMatches(s, p) ==
    /\ IsAsciiWordChar(CharAt(s, p))
    /\ LET e == SkipSpace(s, AsciiWordRunEnd(s, p))
           q == SkipSpace(s, e + 1)
       IN  /\ CharAt(s, e) = "="
           /\ CharAt(s, q) \in Quotes
           /\ FindQuote(s, q + 1) > q + 1

\* its match: the name, the value and the position of the closing quote
AssignMatch(s, p) ==
    LET r == AsciiWordRunEnd(s, p)
        q == SkipSpace(s, SkipSpace(s, r) + 1)
        v == FindQuote(s, q + 1)
    IN  [name |-> SubSeq(s, p + 1, r), value |-> SubSeq(s, q + 2, v), end |-> v]

\* re.findall of that pattern from pos on
RECURSIVE Assignments(_, _)
Assignments(s, pos) ==
    LET P == {p \in pos..(Len(s) - 1) : AssignMatches(s, p)}
    IN  IF P = {} THEN <<>>
        ELSE LET m == AssignMatch(s, CHOOSE p \in P : \A q \in P : p <= q)
             IN  <<m>> \o Assignments(s, m.end + 1)

\* lines 77-79, 99-101: the assignments whose name contains "vault"
VaultVars(s) ==
    SelectSeq(Assignments(s, 0), LAMBDA m : Contains(Lower(m.name), W_vault))

\* lines 103, 125: ", ".join([f"{k}={v}" for k, v in vars])
JoinVars(ms) ==
    Join(CommaSpace, [k \in DOMAIN ms |-> ms[k].name \o <<"=">> \o ms[k].value])

\* lines 81-114: the row of one function block; the columns Vault URLs,
\* Vault Credentials, Vault Namespaces, KV Paths and Vault Keys are searches
\* in func_body and are kept as the body they are computed from
FuncRow(path, fb) ==
    [path |-> path,
     function |-> FuncName(fb.func_def),
     func_body |-> fb.func_body,
     vault_envs |-> JoinVars(VaultVars(fb.func_body))]

\* lines 116-128: the row of the environment block
W_global_environment ==
    <<"g","l","o","b","a","l","_","e","n","v","i","r","o","n","m","e","n","t">>

EnvRow(path, s) ==
    [path |-> path,
     function |-> W_global_environment,
     func_body |-> <<>>,
     vault_envs |-> JoinVars(VaultVars(EnvBlock(s)))]

\* a file whose bytes can be read once and that is gone when read again
VanishingFile(bytes) == [kind |-> "vanishing", content |-> bytes]

\* open() succeeds at the first attempt
Readable(f) == f.kind \in {"text", "vanishing"}

\* run_inventory lines 46-49: the next file of the iteration is handed to
\* extract_func
InvNextFile ==
    /\ pc = "batch"
    /\ caller \in {"vaults", "scripts"}
    /\ fidx < Len(files)
    /\ pc' = IF caller = "vaults" THEN "ev_read" ELSE "ed_read"
    /\ content' = <<>>
    /\ bidx' = 0
    /\ func_blocks' = <<>>
    /\ results' = <<>>
    /\ UNCHANGED <<argv, fs, lines, i, warnings, start_index, gi, brace_count,
                   block_started, block_lines, caller, exit_code, extractions,
                   examined, runs, yamlvars, stage_blocks, stages, step_counts,
                   tool_counts_per_stage, tools_used_per_stage, batchvars,
                   envvars>>

\* lines 15-16: read_text(encoding="utf-8") returns
EvReadUtf8 ==
    /\ pc = "ev_read"
    /\ Readable(CurrentFile)
    /\ DecodesStrict(CurrentFile.content)
    /\ content' = CurrentFile.content
    /\ opened' = opened \cup {CurrentPath}
    /\ pc' = "ev_findall"
    /\ UNCHANGED <<argv, fs, lines, i, warnings, start_index, gi, brace_count,
                   block_started, block_lines, caller, exit_code, extractions,
                   examined, runs, errors, fixvars, stage_blocks, bidx, stages,
                   step_counts, tool_counts_per_stage, tools_used_per_stage,
                   batchvars, extractvars>>

\* lines 16-18: read_text(encoding="utf-8") raises UnicodeDecodeError
EvDecodeError ==
    /\ pc = "ev_read"
    /\ Readable(CurrentFile)
    /\ ~DecodesStrict(CurrentFile.content)
    /\ pc' = "ev_retry"
    /\ UNCHANGED <<argv, fs, lines, i, warnings, start_index, gi, brace_count,
                   block_started, block_lines, caller, exit_code, extractions,
                   examined, runs, pipevars>>

\* lines 16, 25-27: read_text raises OSError, the empty results are returned
EvOpenFails ==
    /\ pc = "ev_read"
    /\ ~Readable(CurrentFile)
    /\ pc' = "ev_ret"
    /\ UNCHANGED <<argv, fs, lines, i, warnings, start_index, gi, brace_count,
                   block_started, block_lines, caller, exit_code, extractions,
                   examined, runs, pipevars>>

\* mutant: the second attempt drops the bytes UTF-8 cannot decode
RetryContent_DropsBadBytes(bytes) == DecodeIgnore(bytes)

\* the content the second attempt continues with
RetryContent(bytes) == DecodeLatin1(bytes)

\* lines 19-20: read_text(encoding="latin-1") returns
EvRetryOk ==
    /\ pc = "ev_retry"
    /\ CurrentFile.kind = "text"
    /\ content' = RetryContent(CurrentFile.content)
    /\ opened' = opened \cup {CurrentPath}
    /\ pc' = "ev_findall"
    /\ UNCHANGED <<argv, fs, lines, i, warnings, start_index, gi, brace_count,
                   block_started, block_lines, caller, exit_code, extractions,
                   examined, runs, errors, fixvars, stage_blocks, bidx, stages,
                   step_counts, tool_counts_per_stage, tools_used_per_stage,
                   batchvars, extractvars>>

\* lines 19-24: the second read_text raises, the empty results are returned
EvRetryFails ==
    /\ pc = "ev_retry"
    /\ CurrentFile.kind # "text"
    /\ pc' = "ev_ret"
    /\ UNCHANGED <<argv, fs, lines, i, warnings, start_index, gi, brace_count,
                   block_started, block_lines, caller, exit_code, extractions,
                   examined, runs, pipevars>>

\* lines 29-52: the patterns are compiled and func_blocks found
EvFindall ==
    /\ pc = "ev_findall"
    /\ func_blocks' = FuncBlocks(content)
    /\ bidx' = 0
    /\ pc' = "ev_loop"
    /\ UNCHANGED <<argv, fs, lines, i, warnings, start_index, gi, brace_count,
                   block_started, block_lines, caller, exit_code, extractions,
                   examined, runs, yamlvars, content, stage_blocks, stages,
                   step_counts, tool_counts_per_stage, tools_used_per_stage,
                   batchvars, results, envvars>>

\* lines 81-114: one iteration of the loop over func_blocks
EvFunc ==
    /\ pc = "ev_loop"
    /\ bidx < Len(func_blocks)
    /\ results' = Append(results, FuncRow(CurrentPath, func_blocks[bidx + 1]))
    /\ bidx' = bidx + 1
    /\ UNCHANGED <<argv, fs, pc, lines, i, warnings, start_index, gi,
                   brace_count, block_started, block_lines, caller, exit_code,
                   extractions, examined, runs, yamlvars, content, stage_blocks,
                   stages, step_counts, tool_counts_per_stage,
                   tools_used_per_stage, batchvars, func_blocks, envvars>>

\* lines 70-79, 116-130: the environment block has vault variables, its row
\* is appended and results returned
EvEnvRow ==
    /\ pc = "ev_loop"
    /\ bidx >= Len(func_blocks)
    /\ VaultVars(EnvBlock(content)) # <<>>
    /\ results' = Append(results, EnvRow(CurrentPath, content))
    /\ pc' = "ev_ret"
    /\ UNCHANGED <<argv, fs, lines, i, warnings, start_index, gi, brace_count,
                   block_started, block_lines, caller, exit_code, extractions,
                   examined, runs, yamlvars, parsevars, batchvars, func_blocks, envvars>>

\* lines 70-79, 116-130: no vault variable in the environment block,
\* results is returned
EvReturn ==
    /\ pc = "ev_loop"
    /\ bidx >= Len(func_blocks)
    /\ VaultVars(EnvBlock(content)) = <<>>
    /\ pc' = "ev_ret"
    /\ UNCHANGED <<argv, fs, lines, i, warnings, start_index, gi, brace_count,
                   block_started, block_lines, caller, exit_code, extractions,
                   examined, runs, pipevars>>

\* run_inventory line 49: data.extend(extract_func(...))
InvExtend ==
    /\ pc \in {"ev_ret", "ed_ret"}
    /\ data' = data \o results
    /\ fidx' = fidx + 1
    /\ pc' = "batch"
    /\ UNCHANGED <<argv, fs, lines, i, warnings, start_index, gi, brace_count,
                   block_started, block_lines, caller, exit_code, extractions,
                   examined, runs, yamlvars, parsevars, variant, files, workers,
                   keyword_lists, extractvars>>

\* pieces of text of a pipeline file with functions
\* def f() {\n
DefChunk ==
    <<"d","e","f"," ","f","(",")"," ","{","\n">>

\*  if (x) {\n
IfChunk ==
    <<" ","i","f"," ","(","x",")"," ","{","\n">>

\*  }\n
IndentedCloseChunk ==
    <<" ","}","\n">>

\* }\n
LineCloseChunk ==
    <<"}","\n">>

\* environment { VAULT_A = "b" }\n
EnvironmentChunk ==
    <<"e","n","v","i","r","o","n","m","e","n","t"," ","{"," ","V","A","U",
      "L","T","_","A"," ","="," ","\"","b","\""," ","}","\n">>

BadByteChunk == <<BadByte>>

VaultCatalogue ==
    {DefChunk, IfChunk, IndentedCloseChunk, LineCloseChunk, EnvironmentChunk,
     BadByteChunk}

\* one pipeline file under the root directory, handed to extract_vault_info
\* by run_inventory
InitVault ==
    /\ argv = <<"repos">>
    /\ files = <<JenkinsPath>>
    /\ fs \in [{JenkinsPath} ->
                 {ByteFile(Flatten(cs)) : cs \in SeqUpTo(VaultCatalogue, MaxVaultChunks)}
                   \cup {VanishingFile(Flatten(cs)) :
                            cs \in SeqUpTo(VaultCatalogue, MaxVaultChunks)}
                   \cup {MissingFile, DeniedFile}]
    /\ variant = "root"
    /\ caller = "vaults"
    /\ pc = "batch"
    /\ lines = <<>>
    /\ i = 0
    /\ warnings = <<>>
    /\ start_index = 0
    /\ gi = 0
    /\ brace_count = 0
    /\ block_started = FALSE
    /\ block_lines = <<>>
    /\ exit_code = -1
    /\ extractions = <<>>
    /\ examined = {}
    /\ runs = <<>>
    /\ InitYamlVars
    /\ InitParseVars
    /\ InitExtractVars
    /\ fidx = 0
    /\ data = <<>>
    /\ workers = <<>>
    /\ keyword_lists = <<>>

NextVault ==
    \/ InvNextFile
    \/ EvReadUtf8
    \/ EvDecodeError
    \/ EvOpenFails
    \/ EvRetryOk
    \/ EvRetryFails
    \/ EvFindall
    \/ EvFunc
    \/ EvEnvRow
    \/ EvReturn
    \/ InvExtend
    \/ BatchDone

SpecVault == InitVault /\ [][NextVault]_vars

\* extract_vault_info has returned for the file
VaultReturned == pc = "ev_ret"

\* one of the two attempts can read the file
ReadableOnce(f) ==
    \/ f.kind = "text"
    \/ f.kind = "vanishing" /\ (\A k \in DOMAIN f.content : f.content[k] # BadByte)

\* the characters a successful attempt yields for the bytes: the text the
\* bytes encode in UTF-8 or, when they are not UTF-8, one character per byte
ReadAs(bytes, text) ==
    /\ Len(text) = Len(bytes)
    /\ \A k \in DOMAIN bytes :
          text[k] = (IF bytes[k] = BadByte THEN Latin1Char ELSE bytes[k])

\* s holds sub as a contiguous part
HasPart(s, sub) == \E k \in 0..(Len(s) - Len(sub)) : SubSeq(s, k + 1, k + Len(sub)) = sub

\* C15: extract_vault_info continues with the UTF-8 text of the file or,
\* when the bytes are not UTF-8, with their latin-1 text; when the file
\* cannot be opened or the second attempt fails too, it returns an empty
\* list; it never raises, and every record comes from content that was read.
C15_ReadFallsBackThenSkips ==
    /\ VaultReturned =>
          IF ReadableOnce(CurrentFile)
            THEN /\ CurrentPath \in opened
                 /\ ReadAs(CurrentFile.content, content)
                 /\ \A k \in DOMAIN results :
                       HasPart(content, results[k].func_body)
            ELSE /\ results = <<>>
                 /\ CurrentPath \notin opened
                 /\ content = <<>>
    /\ pc = "exit" => (exit_code = 0 /\ fidx = Len(files))

\* a file with a byte that is not UTF-8 and a function: the function's row
\* is made from the latin-1 text
C15_Witness ==
    /\ VaultReturned
    /\ CurrentFile.kind = "text"
    /\ BadByte \in Elems(CurrentFile.content)
    /\ Latin1Char \in Elems(content)
    /\ Len(results) = 1
    /\ results[1].function = <<"f">>

\* extract_vault_info has found the function blocks of the content it read
FuncBlocksFound == pc \in {"ev_loop", "ev_ret"} /\ CurrentPath \in opened

\* C18: every function block extract_vault_info captures ends at the "}"
\* that matches the "{" opening the function's body, also when the body
\* holds nested brace blocks whose closing brace starts a line.
C18_FunctionBodyBalanced ==
    FuncBlocksFound =>
        \A k \in DOMAIN func_blocks :
            LET sp == FuncSpans(content, 0)[k]
            IN  /\ BalancePoints(content, sp.open) # {}
                /\ sp.end = Least(BalancePoints(content, sp.open))

----------------------------------------------------------------------------
(* The script inventory: extract_docker_agent_info                         *)
(* (src/tools/pipeline_inventory_scripts.py), run by run_inventory, and    *)
(* the batch runs over several files.                                      *)

\* lines 22-25: .+?['\"]\)\s*\{([\s\S]*?)^\s*\} from the name start n, with
\* DOTALL and MULTILINE: the positions e of a closing quote after which the
\* rest of the pattern matches
ScriptHeaderEnds(s, n) ==
    {e \in (n + 1)..(Len(s) - 1) :
        /\ s[e + 1] \in Quotes
        /\ CharAt(s, e + 1) = ")"
        /\ CharAt(s, SkipSpace(s, e + 2)) = "{"
        /\ BodyEnds(s, SkipSpace(s, e + 2)) # {}}

\* the pattern of lines 22-25 matches at p
ScriptStageMatches(s, p) ==
    /\ StageNameStart(s, p) >= 0
    /\ ScriptHeaderEnds(s, StageNameStart(s, p)) # {}

\* its match: the name and the body are lazy
ScriptStageMatch(s, p) ==
    LET n == StageNameStart(s, p)
        H == ScriptHeaderEnds(s, n)
        e == CHOOSE x \in H : \A y \in H : x <= y
        o == SkipSpace(s, e + 2)
        B == BodyEnds(s, o)
        b == CHOOSE x \in B : \A y \in B : x <= y
    IN  [start |-> p, name |-> SubSeq(s, n + 1, e), open |-> o,
         end |-> SkipSpace(s, b)]

\* re.findall: the leftmost match at or after pos, then on from its end
RECURSIVE ScriptStageSpans(_, _)
ScriptStageSpans(s, pos) ==
    LET P == {p \in pos..(Len(s) - 1) : ScriptStageMatches(s, p)}
    IN  IF P = {} THEN <<>>
        ELSE LET m == ScriptStageMatch(s, CHOOSE p \in P : \A q \in P : p <= q)
             IN  <<m>> \o ScriptStageSpans(s, m.end + 1)

\* lines 26-70: the rows of the file, one per stage block; the columns
\* Agent Image, Agent Image Variable Value, Nexus Info and Shell Scripts are
\* searches in the block and are kept as the block they are computed from
ScriptRows(path, s) ==
    LET sp == ScriptStageSpans(s, 0)
    IN  [k \in DOMAIN sp |->
            [path |-> path,
             stage |-> sp[k].name,
             block |-> SubSeq(s, sp[k].start + 1, sp[k].end + 1)]]

\* lines 16-17: read_text(encoding="utf-8") returns
EdReadOk ==
    /\ pc = "ed_read"
    /\ Readable(CurrentFile)
    /\ DecodesStrict(CurrentFile.content)
    /\ content' = CurrentFile.content
    /\ opened' = opened \cup {CurrentPath}
    /\ pc' = "ed_scan"
    /\ UNCHANGED <<argv, fs, lines, i, warnings, start_index, gi, brace_count,
                   block_started, block_lines, caller, exit_code, extractions,
                   examined, runs, errors, fixvars, stage_blocks, bidx, stages,
                   step_counts, tool_counts_per_stage, tools_used_per_stage,
                   batchvars, extractvars>>

\* lines 17-20: read_text raises OSError, the empty results are returned
EdOpenFails ==
    /\ pc = "ed_read"
    /\ ~Readable(CurrentFile)
    /\ pc' = "ed_ret"
    /\ UNCHANGED <<argv, fs, lines, i, warnings, start_index, gi, brace_count,
                   block_started, block_lines, caller, exit_code, extractions,
                   examined, runs, pipevars>>

\* line 17: read_text raises UnicodeDecodeError, which is no OSError: it
\* leaves extract_docker_agent_info and run_inventory (src/utils.py line 49
\* has no handler), the process ends with a traceback before the report is
\* written
EdDecodeError ==
    /\ pc = "ed_read"
    /\ Readable(CurrentFile)
    /\ ~DecodesStrict(CurrentFile.content)
    /\ exit_code' = 1
    /\ pc' = "exit"
    /\ UNCHANGED <<argv, fs, lines, i, warnings, start_index, gi, brace_count,
                   block_started, block_lines, caller, extractions, examined,
                   runs, pipevars>>

\* lines 22-72: the stage blocks are found, their rows built and returned
EdScan ==
    /\ pc = "ed_scan"
    /\ results' = ScriptRows(CurrentPath, content)
    /\ pc' = "ed_ret"
    /\ UNCHANGED <<argv, fs, lines, i, warnings, start_index, gi, brace_count,
                   block_started, block_lines, caller, exit_code, extractions,
                   examined, runs, yamlvars, parsevars, batchvars, func_blocks, envvars>>

\* a pipeline text with a stage, a function and an environment block with
\* a vault variable
BatchText ==
    StageBuildChunk \o <<"\n">> \o LineCloseChunk \o DefChunk
        \o LineCloseChunk \o EnvironmentChunk

\* a pipeline text with a function and no environment block
PlainText == DefChunk \o LineCloseChunk

BatchFileCatalogue ==
    {ByteFile(BatchText), ByteFile(PlainText),
     ByteFile(BadByteChunk \o BatchText),
     VanishingFile(BadByteChunk \o BatchText), MissingFile, DeniedFile}

\* the tools that run a batch: the two collectors of the stage inventory of
\* either module, and run_inventory with the vault or the script extractor
BatchTools ==
    {[caller |-> "collect_data", variant |-> "root"],
     [caller |-> "collect_data", variant |-> "tools"],
     [caller |-> "collect_file_summary", variant |-> "root"],
     [caller |-> "vaults", variant |-> "root"],
     [caller |-> "scripts", variant |-> "tools"]}

\* a batch run over up to MaxBatchFiles files, the k-th file of the
\* iteration being named k
InitBatch ==
    /\ argv = <<"repos">>
    /\ \E n \in 0..MaxBatchFiles :
          /\ files = [k \in 1..n |-> k]
          /\ fs \in [1..n -> BatchFileCatalogue]
    /\ \E t \in BatchTools : caller = t.caller /\ variant = t.variant
    /\ pc = "batch"
    /\ lines = <<>>
    /\ i = 0
    /\ warnings = <<>>
    /\ start_index = 0
    /\ gi = 0
    /\ brace_count = 0
    /\ block_started = FALSE
    /\ block_lines = <<>>
    /\ exit_code = -1
    /\ extractions = <<>>
    /\ examined = {}
    /\ runs = <<>>
    /\ InitYamlVars
    /\ InitParseVars
    /\ InitExtractVars
    /\ fidx = 0
    /\ data = <<>>
    /\ workers = <<>>
    /\ keyword_lists = <<>>

NextBatch ==
    \/ ParseNextFile
    \/ PjReadOk
    \/ PjReadFails
    \/ PjFindall
    \/ PjStage
    \/ PjReturn
    \/ CollectRows
    \/ CollectSummary
    \/ InvNextFile
    \/ EvReadUtf8
    \/ EvDecodeError
    \/ EvOpenFails
    \/ EvRetryOk
    \/ EvRetryFails
    \/ EvFindall
    \/ EvFunc
    \/ EvEnvRow
    \/ EvReturn
    \/ EdReadOk
    \/ EdOpenFails
    \/ EdDecodeError
    \/ EdScan
    \/ InvExtend
    \/ BatchDone

SpecBatch == InitBatch /\ [][NextBatch]_vars

\* the read of the file fails for good: it cannot be opened
CannotBeOpened(f) == f.kind \in {"missing", "denied"}

\* C14: in a batch run no read failure of a file (missing, permission
\* denied, undecodable bytes) aborts the batch: the run ends normally after
\* all files were handled, a file that cannot be read contributes no record
\* and every file that can be read is scanned.
C14_ReadFailureNeverAbortsBatch ==
    pc = "exit" =>
        /\ exit_code = 0
        /\ fidx = Len(files)
        /\ \A k \in DOMAIN files :
              CannotBeOpened(fs[files[k]]) =>
                  \A r \in DOMAIN data : data[r].path # files[k]
        /\ \A k \in DOMAIN files :
              fs[files[k]].kind = "text" => files[k] \in opened

----------------------------------------------------------------------------
(* A pool of workers, one scan per file: every worker runs check_aws_tags  *)
(* (src/hooks/aws_tags_check.py) or parse_jenkinsfile                      *)
(* (src/pipeline_inventory_tools.py) on its own file, the steps of the     *)
(* workers interleave.  A worker's state is the locals of its call.        *)

\* lines 28-33: the lists the module defines when it is loaded
ModuleLists(v) ==
    [TOOL_KEYWORDS |-> TOOL_KEYWORDS(v),
     TOOL_KEYWORDS_LOWER |-> TOOL_KEYWORDS_LOWER(v)]

\* check_aws_tags(path): the locals at the call
TagStart(path) ==
    [path |-> path, pc |-> "open", lines |-> <<>>, i |-> 0, warnings |-> <<>>,
     gi |-> 0, brace_count |-> 0, block_started |-> FALSE,
     block_lines |-> <<>>, caller |-> "none"]

\* mutant: the warnings list is one module-level list all calls share
OwnWarnings_OneSharedList(W, w) == W[1].warnings

\* line 52: warnings is a list the call creates, a local of worker w
OwnWarnings(W, w) == W[w].warnings

\* lines 20-23: entry into get_block_lines
TagEnter(L, who) ==
    [L EXCEPT !.gi = L.i, !.brace_count = 0, !.block_started = FALSE,
              !.block_lines = <<>>, !.caller = who, !.pc = "gbl"]

\* lines 24-39: one iteration of the loop of get_block_lines, or its end
TagBlockStep(L) ==
    IF L.gi >= Len(L.lines) THEN [L EXCEPT !.pc = "gbl_ret"]
    ELSE LET line == L.lines[L.gi + 1]
             st == StartedAfter(L.block_started, line)
             bc == CountAfter(L.block_started, L.brace_count, line)
         IN  [L EXCEPT !.block_started = st, !.brace_count = bc,
                       !.block_lines = Append(L.block_lines, line),
                       !.gi = L.gi + 1,
                       !.pc = IF BreakCondition(st, bc) THEN "gbl_ret" ELSE "gbl"]

\* lines 52-89: the next step of worker w in the pool W
TagStep(W, w) ==
    LET L == W[w]
        f == fs[L.path]
    IN  CASE L.pc = "open" ->
               IF f.kind = "text"
                 THEN [L EXCEPT !.lines = f.content, !.i = 0, !.pc = "chk"]
                 ELSE [L EXCEPT !.pc = "raised"]
          [] L.pc = "chk" ->
               IF L.i >= Len(L.lines) THEN [L EXCEPT !.pc = "done"]
               ELSE IF IsResourceHeader(L.lines[L.i + 1])
                 THEN TagEnter(L, "resource")
               ELSE IF IsCheckedModule(L.lines[L.i + 1])
                 THEN TagEnter(L, "module")
               ELSE [L EXCEPT !.i = L.i + 1]
          [] L.pc = "gbl" -> TagBlockStep(L)
          [] L.pc = "gbl_ret" ->
               [L EXCEPT
                  !.warnings =
                      IF HasActiveTags(L.block_lines) THEN L.warnings
                      ELSE AddWarning(OwnWarnings(W, w),
                             IF L.caller = "resource"
                               THEN ResourceWarning(L.path, L.i)
                               ELSE ModuleWarning(L.path, L.i,
                                                  ModuleName(L.lines[L.i + 1]))),
                  !.i = CursorAfterBlock(L.i, L.gi),
                  !.pc = "chk"]

\* parse_jenkinsfile(path): the locals at the call
StageStart(path) ==
    [path |-> path, pc |-> "pj_read", content |-> <<>>, stage_blocks |-> <<>>,
     bidx |-> 0, stages |-> <<>>, step_counts |-> <<>>,
     tool_counts_per_stage |-> <<>>, tools_used_per_stage |-> <<>>]

\* lines 40-50: one iteration of the loop over the blocks, with the
\* module-level lists kl
StageLoopStep(L, kl) ==
    LET block == L.stage_blocks[L.bidx + 1]
        tool_counts == ToolCountsOf(kl.TOOL_KEYWORDS_LOWER, block)
        tools_used == ToolsUsed(kl.TOOL_KEYWORDS, tool_counts, Len(tool_counts))
    IN  IF StageNameFound(block)
          THEN [L EXCEPT
                  !.stages = Append(L.stages, StageName(block)),
                  !.step_counts = Append(L.step_counts, StepsInStage(block)),
                  !.tool_counts_per_stage =
                      Append(L.tool_counts_per_stage, tool_counts),
                  !.tools_used_per_stage =
                      Append(L.tools_used_per_stage, Join(CommaSpace, tools_used)),
                  !.bidx = L.bidx + 1]
          ELSE [L EXCEPT !.bidx = L.bidx + 1]

\* lines 36-54: the next step of worker w in the pool W
StageStep(W, w, kl) ==
    LET L == W[w]
        f == fs[L.path]
    IN  CASE L.pc = "pj_read" ->
               IF f.kind = "text"
                 THEN [L EXCEPT !.content = DecodeIgnore(f.content),
                                !.pc = "pj_findall"]
                 ELSE [L EXCEPT !.pc = "done"]
          [] L.pc = "pj_findall" ->
               [L EXCEPT !.stage_blocks = StageBlocks(L.content),
                         !.pc = "pj_loop"]
          [] L.pc = "pj_loop" ->
               IF L.bidx < Len(L.stage_blocks) THEN StageLoopStep(L, kl)
               ELSE [L EXCEPT !.pc = "done"]

\* the call of a worker has ended, by a return or by an exception
Ended(L) == L.pc \in {"done", "raised"}

\* a step of a worker that runs check_aws_tags
TagWorkerStep ==
    /\ caller = "check_aws_tags"
    /\ \E w \in DOMAIN workers :
          /\ ~Ended(workers[w])
          /\ workers' = [workers EXCEPT ![w] = TagStep(workers, w)]
    /\ UNCHANGED <<tagvars, yamlvars, parsevars, variant, files, fidx, data,
                   keyword_lists, extractvars>>

\* a step of a worker that runs parse_jenkinsfile
StageWorkerStep ==
    /\ caller = "parse_jenkinsfile"
    /\ \E w \in DOMAIN workers :
          /\ ~Ended(workers[w])
          /\ workers' = [workers EXCEPT ![w] = StageStep(workers, w, keyword_lists)]
    /\ UNCHANGED <<tagvars, yamlvars, parsevars, variant, files, fidx, data,
                   keyword_lists, extractvars>>

WorkerTagFiles ==
    {TextFile(<<ResourceLine, CloseLine>>),
     TextFile(<<ResourceLine, TagsLine, CloseLine>>),
     TextFile(<<ModuleRdsLine, CloseLine>>),
     MissingFile}

WorkerStageFiles ==
    {ByteFile(ExampleStage),
     ByteFile(StageBuildChunk \o PostNpmChunk \o StepsTerraformChunk \o CloseChunk),
     MissingFile}

\* up to MaxWorkers workers, worker w scanning the file named w; none has
\* taken a step
InitWorkers ==
    /\ argv = <<>>
    /\ \E t \in {[caller |-> "check_aws_tags", variant |-> "root"],
                 [caller |-> "parse_jenkinsfile", variant |-> "root"],
                 [caller |-> "parse_jenkinsfile", variant |-> "tools"]} :
          /\ caller = t.caller
          /\ variant = t.variant
    /\ \E n \in 1..MaxWorkers :
          /\ files = [k \in 1..n |-> k]
          /\ fs \in [1..n -> IF caller = "check_aws_tags"
                               THEN WorkerTagFiles ELSE WorkerStageFiles]
          /\ workers = [w \in 1..n |->
                          IF caller = "check_aws_tags"
                            THEN TagStart(w) ELSE StageStart(w)]
    /\ keyword_lists = ModuleLists(variant)
    /\ pc = "pool"
    /\ lines = <<>>
    /\ i = 0
    /\ warnings = <<>>
    /\ start_index = 0
    /\ gi = 0
    /\ brace_count = 0
    /\ block_started = FALSE
    /\ block_lines = <<>>
    /\ exit_code = -1
    /\ extractions = <<>>
    /\ examined = {}
    /\ runs = <<>>
    /\ InitYamlVars
    /\ InitParseVars
    /\ InitExtractVars
    /\ fidx = 0
    /\ data = <<>>

NextWorkers ==
    \/ TagWorkerStep
    \/ StageWorkerStep

SpecWorkers == InitWorkers /\ [][NextWorkers]_vars

\* the scan of one file alone, from the locals L to the end of the call
RECURSIVE TagAlone(_)
TagAlone(L) == IF Ended(L) THEN L ELSE TagAlone(TagStep(<<L>>, 1))

RECURSIVE StageAlone(_, _)
StageAlone(L, v) ==
    IF Ended(L) THEN L ELSE StageAlone(StageStep(<<L>>, 1, ModuleLists(v)), v)

\* what an ended call hands back: how it ended and its lists
Handed(L) ==
    IF caller = "check_aws_tags"
      THEN <<L.pc, L.warnings>>
      ELSE <<L.pc, L.stages, L.step_counts, L.tool_counts_per_stage,
             L.tools_used_per_stage>>

\* the same for the scan of worker w's file alone
HandedAlone(w) ==
    IF caller = "check_aws_tags"
      THEN Handed(TagAlone(TagStart(w)))
      ELSE Handed(StageAlone(StageStart(w), variant))

\* C16: with one worker per file and any interleaving of the workers' steps
\* every ended scan hands back what the scan of its file alone hands back,
\* and the module-level keyword lists are the ones the module defined.
C16_WorkersScanIndependently ==
    /\ keyword_lists = ModuleLists(variant)
    /\ \A w \in DOMAIN workers :
          Ended(workers[w]) => Handed(workers[w]) = HandedAlone(w)

\* two tag scans have ended: the first hands back the warning of its file,
\* the second, whose file it could read, hands back none
C16_Witness ==
    /\ caller = "check_aws_tags"
    /\ Len(workers) = 2
    /\ Ended(workers[1]) /\ Ended(workers[2])
    /\ Len(workers[1].warnings) = 1
    /\ fs[2].kind = "text"
    /\ workers[2].warnings = <<>>

----------------------------------------------------------------------------
(* check_aws_tags on malformed files: unbalanced braces, a header with no  *)
(* brace, a module line with no quoted name.                               *)

ModuleNoBraceLine == <<"m","o","d","u","l","e"," ","\"","d","b","\"">>

\* a header whose block is never closed, a header with no brace, a module
\* line with no quoted name, a line that closes more than was opened
MalformedCatalogue == {ResourceLine, ModuleNoBraceLine, ModuleNoNameLine,
                       OverCloseLine}

InitMalformed == InitWith(MalformedCatalogue, MaxMalformedLines)

\* the interpreter runs the program: a step that can be taken is taken
SpecMalformed == InitMalformed /\ [][Next]_vars /\ WF_vars(Next)

\* one step of check_aws_tags' loop, seen at the cursor: an iteration that
\* calls nothing moves the cursor by one line, an iteration that called
\* get_block_lines moves it to the returned next_index, which is greater,
\* no step moves it back, and the loop is left only at the end of the lines
CursorStep ==
    /\ (pc = "chk" /\ pc' = "chk") => i' = i + 1
    /\ (pc = "gbl_ret" /\ pc' = "chk") => (i' = gi /\ i' > i)
    /\ (pc = "chk" /\ pc' = "print") => i >= Len(lines)
    /\ i' >= i

\* the process has ended on a file it could read: main printed the result
\* of a check_aws_tags that returned, and left with status 0
EndedWithoutRaising ==
    (pc = "exit" /\ Len(argv) >= 1 /\ fs[argv[1]].kind = "text") =>
        /\ exit_code = 0
        /\ i >= Len(lines)
        /\ lines = fs[argv[1]].content

\* C19: check_aws_tags terminates on every input: each loop iteration moves
\* the cursor i forward (by one line, or to the next_index of get_block_lines,
\* which is greater than i), the loop ends with i >= len(lines), and a file
\* of malformed structure makes the run end as any other, without raising.
C19_TerminatesCursorIncreases ==
    /\ <>(pc = "exit")
    /\ [][CursorStep]_vars
    /\ []EndedWithoutRaising

\* C19 witness: the run has ended with status 0 on a file that has a module
\* line with no quoted name and a header whose block never started (no "{"
\* up to the end of the file) or never closed
C19_Witness ==
    /\ pc = "exit"
    /\ exit_code = 0
    /\ \E k \in DOMAIN lines : lines[k] = ModuleNoNameLine \o <<"\n">>
    /\ \E k \in DOMAIN extractions :
          /\ extractions[k].next = Len(lines)
          /\ ~BreakCondition(extractions[k].started, extractions[k].depth)

----------------------------------------------------------------------------
(* The depth counter of get_block_lines, line by line.                     *)

\* the call is at a line end: gi lines from start_index on have been visited
AtLineEnd == pc \in {"gbl", "gbl_ret", "done"} /\ caller = "direct"

\* "{" minus "}" over all the lines [s, e)
NetOverAll(ls, s, e) == OpensIn(ls, s, e) - ClosesIn(ls, s, e)

\* C20 as stated: after every visited line brace_count is the number of "{"
\* minus the number of "}" over all the lines visited from start_index on,
\* the lines before the first "{" included.
C20_DepthCountsEveryVisitedLine ==
    AtLineEnd => brace_count = NetOverAll(lines, start_index, gi)

\* C20 amended: after every visited line brace_count is the number of "{"
\* minus the number of "}" over the visited lines from the first line that
\* contains "{" on; the lines visited before it are not counted, and the
\* counter is 0 until that line is visited.
C20_DepthCountsFromFirstOpen ==
    AtLineEnd => brace_count = NetFromOpen(lines, start_index, gi)

\* C20 witness: the scan has passed a "}" on a line before the first "{"
\* line and has visited that line: the counter differs from the count
\* over all visited lines
C20_Witness ==
    /\ AtLineEnd
    /\ FirstOpen(lines, start_index) < gi
    /\ ClosesIn(lines, start_index, FirstOpen(lines, start_index)) > 0
    /\ brace_count # NetOverAll(lines, start_index, gi)

----------------------------------------------------------------------------
(* The lines get_block_lines returns.                                      *)

\* C21: at every line end of the scan block_lines is the run of the lines
\* visited so far, lines[start_index .. gi-1], in order, and the finished
\* call returns lines[start_index .. next_index-1] with next_index one past
\* the last visited line: lines before the first "{" and the line with the
\* first "{" are in it, nothing is dropped or appended twice.
C21_BlockIsVisitedRun ==
    /\ AtLineEnd =>
          /\ start_index <= gi /\ gi <= Len(lines)
          /\ block_lines = SubSeq(lines, start_index + 1, gi)
    /\ pc = "done" =>
          /\ Result.block = SubSeq(lines, Result.start + 1, Result.next)
          /\ Result.next = Result.start + Len(Result.block)

\* C21 witness: a finished call that visited two or more lines before the
\* line with the first "{", and that line, and returned them all
C21_Witness ==
    /\ pc = "done"
    /\ FirstOpen(lines, start_index) >= start_index + 2
    /\ Result.next > FirstOpen(lines, start_index)
    /\ Len(Result.block) >= 3
    /\ Result.block[1] = lines[start_index + 1]

----------------------------------------------------------------------------
(* The nesting depth over a returned block.                                *)

\* the brace characters of a line, in order
BracesOfLine(line) == SelectSeq(line, LAMBDA c : c \in {"{", "}"})

\* the brace characters of the lines [a, b), concatenated
RECURSIVE BracesOf(_, _, _)
BracesOf(ls, a, b) ==
    IF b <= a THEN <<>> ELSE BracesOf(ls, a, b - 1) \o BracesOfLine(ls[b])

\* the nesting depth after the first n brace characters of bs
DepthAfter(bs, n) ==
    Cardinality({k \in 1..n : bs[k] = "{"}) -
    Cardinality({k \in 1..n : bs[k] = "}"})

\* net depth zero at the end, strictly positive somewhere before it
ZeroAtEndPositiveBefore(bs) ==
    /\ DepthAfter(bs, Len(bs)) = 0
    /\ \E n \in 1..(Len(bs) - 1) : DepthAfter(bs, n) > 0

\* C22 as stated: the brace characters of the lines of every returned block
\* [start, end), concatenated, give net depth zero at end-1, and a strictly
\* positive depth somewhere before.
C22_ReturnedBlockBalanced ==
    pc = "done" =>
        ZeroAtEndPositiveBefore(BracesOf(lines, Result.start, Result.next))

\* C22 amended: when the block that begins at start_index is balanced line
\* by line (WellNested), the returned range [start, end) has as many "{" as
\* "}" and at least one "{", it ends with the line at which the count from
\* the first "{" line reaches zero, and at every earlier line end from that
\* line on the count is strictly positive.
C22_WellNestedBlockBalanced ==
    (pc = "done" /\ WellNested(lines, start_index)) =>
        /\ Result.started /\ Result.depth = 0
        /\ OpensIn(lines, Result.start, Result.next) >= 1
        /\ NetOverAll(lines, Result.start, Result.next) = 0
        /\ \A d \in (FirstOpen(lines, start_index) + 1)..(Result.next - 1) :
              NetOverAll(lines, Result.start, d) > 0

\* C22 witness: a finished call on a well-nested block of three or more
\* lines from its first "{" line, the depth positive at two line ends
C22_Witness ==
    /\ pc = "done"
    /\ WellNested(lines, start_index)
    /\ Result.depth = 0
    /\ Result.next >= FirstOpen(lines, start_index) + 3
    /\ ZeroAtEndPositiveBefore(BracesOf(lines, Result.start, Result.next))

----------------------------------------------------------------------------
(* The sign of the depth counter during a scan.                            *)

\* C23: at the start of every iteration of get_block_lines' loop (and at the
\* loop test that ends it) brace_count is >= 0, it is > 0 when the block has
\* started and 0 when it has not; a negative counter is seen only after the
\* last visited line, when the loop has been left.
C23_DepthNotNegativeMidScan ==
    /\ pc = "gbl" =>
          /\ brace_count >= 0
          /\ block_started => brace_count > 0
          /\ ~block_started => brace_count = 0
    /\ brace_count < 0 =>
          /\ pc \in {"gbl_ret", "done"}
          /\ block_started
          /\ gi > start_index
          /\ NetFromOpen(lines, start_index, gi - 1) > 0
             \/ FirstOpen(lines, start_index) = gi - 1

\* C23 witness: mid-scan, the block started and one brace open, the next
\* line to visit closes two
C23_Witness ==
    /\ pc = "gbl"
    /\ block_started
    /\ brace_count = 1
    /\ gi < Len(lines)
    /\ lines[gi + 1] = OverCloseLine

----------------------------------------------------------------------------
(* The extractions of one run of check_aws_tags.                           *)

\* the line range [start, next) of the k-th extraction of the run
Range(k) == extractions[k].start .. (extractions[k].next - 1)

\* C24: within one run of check_aws_tags every extraction starts at or after
\* the next_index of the one before it, the extraction in progress included:
\* the line ranges of the extracted blocks are pairwise disjoint.
C24_ExtractionsNeverOverlap ==
    /\ \A k \in 1..(Len(extractions) - 1) :
          extractions[k + 1].start >= extractions[k].next
    /\ \A j, k \in DOMAIN extractions : j # k => Range(j) \cap Range(k) = {}
    /\ (pc \in {"gbl", "gbl_ret"} /\ extractions # <<>>) =>
          start_index >= extractions[Len(extractions)].next

\* C24 witness: a finished run with two extractions of two or more lines,
\* the second one begun right where the first one ended
C24_Witness ==
    /\ pc = "exit"
    /\ Len(extractions) = 2
    /\ extractions[1].next >= extractions[1].start + 2
    /\ extractions[2].start = extractions[1].next
    /\ extractions[2].next >= extractions[2].start + 2

----------------------------------------------------------------------------
(* The tag verdict of a block and the lines after it.                      *)

\* the block has a tags assignment on a line that is not a comment
ActiveTagsIn(B) ==
    \E k \in DOMAIN B : TagsAssignment(B[k]) /\ ~Commented(B[k])

\* the result of a run has a warning for line n
WarnedIn(result, n) == \E k \in DOMAIN result : result[k].line = n

\* the files fa and fb are the same up to line e, and in fa a block that
\* begins at line s is closed at line e
SameUpToBlockEnd(fa, fb, s, e) ==
    /\ StopPoints(fa, s) # {}
    /\ StopIndex(fa, s) = e
    /\ e <= Len(fb)
    /\ SubSeq(fa, 1, e) = SubSeq(fb, 1, e)

\* the lines of the file at path p
FileLines(p) == fs[p].content

\* the runs a and b agree on every block that is closed in the file of a
\* and up to whose end the two files are the same: where their warnings
\* differ, the files are not the same up to the end of such a block
AgreeOnSharedBlocks(a, b) ==
    LET fa == FileLines(runs[a].path)
        fb == FileLines(runs[b].path)
    IN  \A s \in 0..(Len(fa) - 1) :
            (WarnedIn(runs[a].result, s + 1) # WarnedIn(runs[b].result, s + 1))
                => ~SameUpToBlockEnd(fa, fb, s, StopIndex(fa, s))

\* C25: when a run has ended, the verdict of each declaration is the verdict
\* of its block: a header is warned about iff the lines extracted for it
\* have no active tags assignment, and two finished runs over files that
\* are the same up to the end of a closed block and differ after it agree
\* on the warning for that block.
C25_VerdictBlockScoped ==
    pc = "exit" =>
        /\ \A e \in Finished : Warned(e.start + 1) <=> ~ActiveTagsIn(e.block)
        /\ \A a, b \in DOMAIN runs :
              (a # b /\ runs[a].code = 0 /\ runs[b].code = 0)
                  => AgreeOnSharedBlocks(a, b)

\* C25 witness: both files were scanned; they begin with the same module
\* block without tags, one goes on with a tags assignment after the block's
\* end, and both runs warned about the block
C25_Witness ==
    /\ Len(runs) >= 2
    /\ runs[1].path = Path /\ runs[2].path = OtherPath
    /\ FileLines(Path) = Readlines(<<ModuleRdsLine, CloseLine, TagsLine>>)
    /\ SameUpToBlockEnd(FileLines(Path), FileLines(OtherPath), 0, 2)
    /\ WarnedIn(runs[1].result, 1)
    /\ WarnedIn(runs[2].result, 1)

----------------------------------------------------------------------------
(* The YAML fixers (src/hooks/harness_indent.py and                        *)
(* src/hooks/harness_correct_indent.py).  A file is the sequence of its    *)
(* characters; the fixers read it in text mode and write it back.          *)

\* a file of the given characters, read and written in text mode
RawFile(text) == [kind |-> "raw", content |-> text]

\* text mode with newline=None: "\r\n" and "\r" are read as "\n"
RECURSIVE TranslateFrom(_, _)
TranslateFrom(s, k) ==
    IF k > Len(s) THEN <<>>
    ELSE IF s[k] = "\r"
      THEN <<"\n">> \o TranslateFrom(s, IF k < Len(s) /\ s[k + 1] = "\n"
                                           THEN k + 2 ELSE k + 1)
    ELSE <<s[k]>> \o TranslateFrom(s, k + 1)

UniversalNewlines(s) == TranslateFrom(s, 1)

\* the lines of a text, each with its "\n", the last one maybe without
RECURSIVE KeepEndsFrom(_, _, _)
KeepEndsFrom(s, k, cur) ==
    IF k > Len(s) THEN (IF cur = <<>> THEN <<>> ELSE <<cur>>)
    ELSE IF s[k] = "\n"
      THEN <<Append(cur, "\n")>> \o KeepEndsFrom(s, k + 1, <<>>)
    ELSE KeepEndsFrom(s, k + 1, Append(cur, s[k]))

\* open(file_path, "r"); f.readlines()
ReadlinesOf(text) == KeepEndsFrom(UniversalNewlines(text), 1, <<>>)

\* open(file_path, "w"); f.writelines(fixed_lines): "\n" is written as the
\* platform's line separator, "\n" here
Writelines(ls) == Flatten(ls)

W_steps_colon == <<"s","t","e","p","s",":">>
W_dash_step == <<"-"," ","s","t","e","p",":">>
FourSpaces == <<" "," "," "," ">>

\* harness_indent line 16: stripped_line.startswith("steps:")
IsStepsLine(line) == StartsWith(LStrip(line), W_steps_colon)

\* harness_indent line 21: stripped_line.startswith("- step:")
IsStepLine(line) == StartsWith(LStrip(line), W_dash_step)

\* harness_indent lines 23-24: step_indent + stripped_line
FixedStepLine(line) == FourSpaces \o LStrip(line)

\* harness_indent lines 38-40: no file argument
HiNoArgs ==
    /\ pc = "hi_main"
    /\ Len(argv) < 1
    /\ exit_code' = 1
    /\ pc' = "exit"
    /\ UNCHANGED <<argv, fs, lines, i, warnings, start_index, gi, brace_count,
                   block_started, block_lines, caller, extractions, examined,
                   runs, pipevars>>

\* harness_indent lines 42-43, 4-10: the file is read, the locals are set
HiOpenOk ==
    /\ pc = "hi_main"
    /\ Len(argv) >= 1
    /\ fs[argv[1]].kind = "raw"
    /\ opened' = opened \cup {argv[1]}
    /\ lines' = ReadlinesOf(fs[argv[1]].content)
    /\ fixed_lines' = <<>>
    /\ inside_steps' = FALSE
    /\ first_step' = TRUE
    /\ i' = 0
    /\ pc' = "hi_loop"
    /\ UNCHANGED <<argv, fs, warnings, start_index, gi, brace_count,
                   block_started, block_lines, caller, exit_code, extractions,
                   examined, runs, errors, parsevars, batchvars, extractvars>>

\* harness_indent lines 4-5: open() or readlines() raises; nothing catches
\* it, the file is left as it was and the interpreter ends with status 1
HiOpenFails ==
    /\ pc = "hi_main"
    /\ Len(argv) >= 1
    /\ fs[argv[1]].kind # "raw"
    /\ exit_code' = 1
    /\ pc' = "exit"
    /\ UNCHANGED <<argv, fs, lines, i, warnings, start_index, gi, brace_count,
                   block_started, block_lines, caller, extractions, examined,
                   runs, pipevars>>

\* harness_indent lines 12-29: one iteration of the loop over the lines
HiLine ==
    /\ pc = "hi_loop"
    /\ i < Len(lines)
    /\ LET line == lines[i + 1]
           inside == inside_steps \/ IsStepsLine(line)
           first == first_step \/ IsStepsLine(line)
       IN  /\ inside_steps' = inside
           /\ IF IsStepLine(line) /\ inside
                THEN IF first
                       THEN /\ fixed_lines' =
                                 Append(fixed_lines, FixedStepLine(line))
                            /\ first_step' = FALSE
                       ELSE /\ fixed_lines' = Append(fixed_lines, line)
                            /\ first_step' = first
                ELSE /\ fixed_lines' = Append(fixed_lines, line)
                     /\ first_step' = first
    /\ i' = i + 1
    /\ UNCHANGED <<argv, fs, pc, lines, warnings, start_index, gi, brace_count,
                   block_started, block_lines, caller, exit_code, extractions,
                   examined, runs, errors, opened, parsevars, batchvars,
                   extractvars>>

\* harness_indent lines 32-35, 43: the file is overwritten with fixed_lines
\* and the process ends; the run is recorded with the file as it was
HiWrite ==
    /\ pc = "hi_loop"
    /\ i >= Len(lines)
    /\ fs' = [fs EXCEPT ![argv[1]] = RawFile(Writelines(fixed_lines))]
    /\ runs' = Append(runs, [path |-> argv[1],
                             before |-> fs[argv[1]].content,
                             result |-> Writelines(fixed_lines),
                             code |-> 0])
    /\ exit_code' = 0
    /\ pc' = "exit"
    /\ UNCHANGED <<argv, lines, i, warnings, start_index, gi, brace_count,
                   block_started, block_lines, caller, extractions, examined,
                   pipevars>>

\* pieces of a pipeline YAML text
StepsChunk == <<"s","t","e","p","s",":","\n">>
Step2Chunk == <<" "," ","-"," ","s","t","e","p",":","\n">>
Step0Chunk == <<"-"," ","s","t","e","p",":","\n">>
NameChunk == <<" "," ","n","a","m","e",":","\n">>
CrLfChunk == <<"k",":","\r","\n">>

FixStepsCatalogue == {StepsChunk, Step2Chunk, Step0Chunk, NameChunk, CrLfChunk}

\* the texts made of at most n pieces of C
TextsOf(C, n) == {Flatten(cs) : cs \in SeqUpTo(C, n)}

InitFixSteps ==
    /\ argv \in {<<>>, <<YamlPath>>}
    /\ fs \in [{YamlPath} -> {RawFile(t) : t \in TextsOf(FixStepsCatalogue,
                                                         MaxFixChunks)}
                                \cup {MissingFile, DeniedFile}]
    /\ pc = "hi_main"
    /\ lines = <<>>
    /\ i = 0
    /\ warnings = <<>>
    /\ start_index = 0
    /\ gi = 0
    /\ brace_count = 0
    /\ block_started = FALSE
    /\ block_lines = <<>>
    /\ caller = "none"
    /\ exit_code = -1
    /\ extractions = <<>>
    /\ examined = {}
    /\ runs = <<>>
    /\ InitPipeVars

NextFixSteps == HiNoArgs \/ HiOpenOk \/ HiOpenFails \/ HiLine \/ HiWrite

SpecFixSteps == InitFixSteps /\ [][NextFixSteps]_vars

\* the lines of a stored text, split after each "\n"
RawLines(text) == KeepEndsFrom(text, 1, <<>>)

\* line k of ls is the first "- step:" line after a "steps:" line
FirstStepAfterSteps(ls, k) ==
    /\ IsStepLine(ls[k])
    /\ \E j \in 1..(k - 1) :
          /\ IsStepsLine(ls[j])
          /\ \A m \in (j + 1)..(k - 1) : ~IsStepLine(ls[m])

\* the file after the run has the lines of the file before it, with the
\* first "- step:" line after each "steps:" line at four spaces
OnlyFirstStepsChanged(before, after) ==
    LET b == RawLines(before)
        a == RawLines(after)
    IN  /\ Len(a) = Len(b)
        /\ \A k \in DOMAIN b :
              a[k] = IF FirstStepAfterSteps(b, k)
                       THEN FourSpaces \o LStrip(b[k])
                       ELSE b[k]

----------------------------------------------------------------------------
(* Warnings, headers and the lines inside extracted blocks.                *)

\* the line is a declaration header: a resource header or a module line
\* whose name has a keyword
DeclarationHeader(line) ==
    HeaderOfKind(line, "resource") \/ HeaderOfKind(line, "module")

\* the 0-based indexes of the lines strictly inside the extraction e, after
\* its header
InsideOf(e) == (e.start + 1) .. (e.next - 1)

\* the warnings whose line lies in the range of the extraction e
WarningsIn(e) ==
    {k \in DOMAIN warnings :
        warnings[k].line - 1 \in e.start .. (e.next - 1)}

\* C27: every warning names a line that is a resource header or a matching
\* module line, no extracted block has more than one warning, and a line
\* inside an extracted block is not classified by the scan: no extraction
\* starts at it and no warning names it.
C27_WarningsOnlyForHeadersOutsideBlocks ==
    /\ \A k \in DOMAIN warnings :
          /\ warnings[k].line \in 1..Len(lines)
          /\ DeclarationHeader(lines[warnings[k].line])
    /\ \A e \in Finished :
          /\ Cardinality(WarningsIn(e)) <= 1
          /\ \A j \in InsideOf(e) :
                /\ j \notin examined
                /\ ~TagChecked(j)
                /\ ~Warned(j + 1)
    /\ Len(warnings) <= Len(extractions)

\* C27 witness: a finished run in which a checked module block without tags
\* holds a resource header: one warning, for the module line
C27_Witness ==
    /\ pc = "exit"
    /\ Len(warnings) = 1
    /\ warnings[1].kind = "module"
    /\ \E e \in Finished :
          /\ e.caller = "module"
          /\ \E j \in InsideOf(e) : HeaderOfKind(lines[j + 1], "resource")

----------------------------------------------------------------------------
(* check_aws_tags on files with commented-out declarations.                *)

\* # resource "aws_s3_bucket" "x" {
CommentedResourceLine == <<"#", " ">> \o ResourceLine

\* # resource "aws_s3_bucket" "old"
CommentedResourceNoBraceLine ==
    <<"#"," ","r","e","s","o","u","r","c","e"," ","\"","a","w","s","_","s",
      "3","_","b","u","c","k","e","t","\""," ","\"","o","l","d","\"">>

CommentedCatalogue == {CommentedResourceLine, CommentedResourceNoBraceLine,
                       ResourceLine, TagsLine, CloseLine, ModuleRdsLine}

InitCommented == InitWith(CommentedCatalogue, MaxCommentedLines)

SpecCommented == InitCommented /\ [][Next]_vars

\* C28: a line whose trimmed form starts with "#" is never taken as a
\* declaration header: no block extraction starts at it and no warning
\* names it, also when it contains "resource" and "aws_".
C28_CommentedLineNeverHeader ==
    \A j \in 0..(Len(lines) - 1) :
        Commented(lines[j + 1]) => (~TagChecked(j) /\ ~Warned(j + 1))

----------------------------------------------------------------------------
(* harness_correct_indent.fix_yaml_indentation, followed by the validator  *)
(* or by a second run of the fixer on the rewritten file.                  *)

TwoSpaces == <<" ", " ">>

\* harness_correct_indent lines 10-21: the line appended for `line`
FixedIndentLine(line) ==
    IF StartsWithDash(line) /\ ~MatchFourThenDash(line)
      THEN FourSpaces \o LStrip(line)
    ELSE IF ~StartsWithDash(line) /\ MatchFourOrMore(line)
      THEN TwoSpaces \o LStrip(line)
    ELSE line

\* validate_yaml_indent lines 9-20: the errors of the lines ls from index n on
RECURSIVE ErrorsFrom(_, _)
ErrorsFrom(ls, n) ==
    IF n >= Len(ls) THEN <<>>
    ELSE LineErrors(ls[n + 1], n) \o ErrorsFrom(ls, n + 1)

\* validate_yaml_indent lines 4-20: check_yaml_indentation on a stored text
CheckYamlText(text) == ErrorsFrom(ReadlinesOf(text), 0)

\* the fixer runs recorded so far
FixRuns == {r \in DOMAIN runs : runs[r].tool = "fix"}

\* harness_correct_indent lines 30-32: no file argument
HcNoArgs ==
    /\ pc = "hc_main"
    /\ Len(argv) < 1
    /\ exit_code' = 1
    /\ pc' = "exit"
    /\ UNCHANGED <<argv, fs, lines, i, warnings, start_index, gi, brace_count,
                   block_started, block_lines, caller, extractions, examined,
                   runs, pipevars>>

\* harness_correct_indent lines 34-35, 5-8: the file is read
HcOpenOk ==
    /\ pc = "hc_main"
    /\ Len(argv) >= 1
    /\ fs[argv[1]].kind = "raw"
    /\ opened' = opened \cup {argv[1]}
    /\ lines' = ReadlinesOf(fs[argv[1]].content)
    /\ fixed_lines' = <<>>
    /\ i' = 0
    /\ pc' = "hc_loop"
    /\ UNCHANGED <<argv, fs, warnings, start_index, gi, brace_count,
                   block_started, block_lines, caller, exit_code, extractions,
                   examined, runs, errors, inside_steps, first_step, parsevars,
                   batchvars, extractvars>>

\* harness_correct_indent lines 5-6: open() or readlines() raises
HcOpenFails ==
    /\ pc = "hc_main"
    /\ Len(argv) >= 1
    /\ fs[argv[1]].kind # "raw"
    /\ exit_code' = 1
    /\ pc' = "exit"
    /\ UNCHANGED <<argv, fs, lines, i, warnings, start_index, gi, brace_count,
                   block_started, block_lines, caller, extractions, examined,
                   runs, pipevars>>

\* harness_correct_indent lines 9-21: one iteration of the loop
HcLine ==
    /\ pc = "hc_loop"
    /\ i < Len(lines)
    /\ fixed_lines' = Append(fixed_lines, FixedIndentLine(lines[i + 1]))
    /\ i' = i + 1
    /\ UNCHANGED <<argv, fs, pc, lines, warnings, start_index, gi, brace_count,
                   block_started, block_lines, caller, exit_code, extractions,
                   examined, runs, errors, opened, inside_steps, first_step,
                   parsevars, batchvars, extractvars>>

\* harness_correct_indent lines 24-27, 35: the file is overwritten
HcWrite ==
    /\ pc = "hc_loop"
    /\ i >= Len(lines)
    /\ fs' = [fs EXCEPT ![argv[1]] = RawFile(Writelines(fixed_lines))]
    /\ runs' = Append(runs, [tool |-> "fix", path |-> argv[1],
                             before |-> fs[argv[1]].content,
                             result |-> Writelines(fixed_lines),
                             code |-> 0])
    /\ exit_code' = 0
    /\ pc' = "exit"
    /\ UNCHANGED <<argv, lines, i, warnings, start_index, gi, brace_count,
                   block_started, block_lines, caller, extractions, examined,
                   pipevars>>

\* validate_yaml_indent lines 27-35, 4-20: the validator is run on the file
\* the fixer has just rewritten
HcValidate ==
    /\ pc = "exit"
    /\ runs # <<>>
    /\ runs[Len(runs)].tool = "fix"
    /\ errors' = CheckYamlText(fs[argv[1]].content)
    /\ exit_code' = ExitStatus(CheckYamlText(fs[argv[1]].content))
    /\ runs' = Append(runs, [tool |-> "validate", path |-> argv[1],
                             before |-> fs[argv[1]].content,
                             result |-> CheckYamlText(fs[argv[1]].content),
                             code |-> ExitStatus(
                                 CheckYamlText(fs[argv[1]].content))])
    /\ UNCHANGED <<argv, fs, pc, lines, i, warnings, start_index, gi,
                   brace_count, block_started, block_lines, caller,
                   extractions, examined, opened, fixvars, parsevars,
                   batchvars, extractvars>>

\* the fixer is run a second time on the file
HcAgain ==
    /\ pc = "exit"
    /\ Cardinality(FixRuns) = 1
    /\ exit_code' = -1
    /\ pc' = "hc_main"
    /\ UNCHANGED <<argv, fs, lines, i, warnings, start_index, gi, brace_count,
                   block_started, block_lines, caller, extractions, examined,
                   runs, pipevars>>

\* pieces of a YAML text: a key, list items at 1 and 4 spaces, a key at 6
\* spaces, a line of three spaces
KeyChunk == <<"a",":","\n">>
Dash1Chunk == <<" ","-"," ","x","\n">>
Dash4Chunk == <<" "," "," "," ","-"," ","x","\n">>
DeepKeyChunk == <<" "," "," "," "," "," ","c",":","\n">>
BlankChunk == <<" "," "," ","\n">>

FixIndentCatalogue == {KeyChunk, Dash1Chunk, Dash4Chunk, DeepKeyChunk,
                       BlankChunk}

InitFixIndent ==
    /\ argv \in {<<>>, <<YamlPath>>}
    /\ fs \in [{YamlPath} -> {RawFile(t) : t \in TextsOf(FixIndentCatalogue,
                                                         MaxFixChunks)}
                                \cup {MissingFile, DeniedFile}]
    /\ pc = "hc_main"
    /\ lines = <<>>
    /\ i = 0
    /\ warnings = <<>>
    /\ start_index = 0
    /\ gi = 0
    /\ brace_count = 0
    /\ block_started = FALSE
    /\ block_lines = <<>>
    /\ caller = "none"
    /\ exit_code = -1
    /\ extractions = <<>>
    /\ examined = {}
    /\ runs = <<>>
    /\ InitPipeVars

NextFixIndent ==
    \/ HcNoArgs \/ HcOpenOk \/ HcOpenFails \/ HcLine \/ HcWrite
    \/ HcValidate \/ HcAgain

SpecFixIndent == InitFixIndent /\ [][NextFixIndent]_vars

\* C29: after harness_correct_indent.fix_yaml_indentation has rewritten a
\* file, check_yaml_indentation on it returns no errors, and a second run of
\* the fixer writes back the file as it found it; files with whitespace-only
\* lines of four or more whitespace characters are among the inputs.
C29_FixerAgreesWithValidator ==
    \A r \in DOMAIN runs :
        /\ (runs[r].tool = "validate" /\ r > 1) => runs[r].result = <<>>
        /\ (runs[r].tool = "fix" /\ \E q \in FixRuns : q < r)
              => runs[r].result = runs[r].before

-----------------------------------------------------------------------------
(* extract_environment_block of src/pipeline_inventory_vaults.py, one      *)
(* character of the scan per step.  A character outside ASCII is written   *)
(* by its code point: "U+0130" is the capital I with a dot above, whose    *)
(* str.lower() is the two characters "i" and "U+0307".                     *)

DottedI == "U+0130"
DotAbove == "U+0307"

\* str.lower() of one character, as the characters it yields
LowerOf(c) == IF c = DottedI THEN <<"i", DotAbove>> ELSE <<LowerChar(c)>>

\* line 55: content.lower(); it agrees with Lower on a text without "U+0130"
LowerCased(s) == Flatten([k \in 1..Len(s) |-> LowerOf(s[k])])

\* what a call of extract_environment_block ends with
ReturnsNone == [kind |-> "None"]
ReturnsStr(text) == [kind |-> "str", text |-> text]
RaisesIndexError == [kind |-> "IndexError"]

\* lines 55-59: the marker is searched in the lowered content
EbFind ==
    /\ pc = "eb_find"
    /\ start' = Find(LowerCased(content), W_environment_open)
    /\ IF start' = -1
         THEN /\ pc' = "exit"
              /\ runs' = Append(runs, [before |-> content,
                                       result |-> ReturnsNone])
              /\ UNCHANGED <<i, stack, end>>
         ELSE /\ pc' = "eb_scan"
              /\ stack' = <<>>
              /\ end' = -1
              /\ i' = start'
              /\ UNCHANGED runs
    /\ UNCHANGED <<argv, fs, lines, warnings, start_index, gi, brace_count,
                   block_started, block_lines, caller, exit_code, extractions,
                   examined, yamlvars, parsevars, batchvars, func_blocks,
                   results>>

\* lines 61-62: an opening brace is pushed
EbPush ==
    /\ pc = "eb_scan"
    /\ i < Len(content)
    /\ content[i + 1] = "{"
    /\ stack' = Append(stack, i)
    /\ i' = i + 1
    /\ UNCHANGED <<argv, fs, pc, lines, warnings, start_index, gi, brace_count,
                   block_started, block_lines, caller, exit_code, extractions,
                   examined, runs, yamlvars, parsevars, batchvars, func_blocks,
                   results, start, end>>

\* lines 63-67: a closing brace pops the stack; the pop that empties it ends
\* the scan
EbPop ==
    /\ pc = "eb_scan"
    /\ i < Len(content)
    /\ content[i + 1] = "}"
    /\ stack # <<>>
    /\ stack' = SubSeq(stack, 1, Len(stack) - 1)
    /\ IF stack' = <<>>
         THEN end' = i /\ pc' = "eb_return" /\ UNCHANGED i
         ELSE i' = i + 1 /\ UNCHANGED <<pc, end>>
    /\ UNCHANGED <<argv, fs, lines, warnings, start_index, gi, brace_count,
                   block_started, block_lines, caller, exit_code, extractions,
                   examined, runs, yamlvars, parsevars, batchvars, func_blocks,
                   results, start>>

\* line 64: stack.pop() on an empty list raises IndexError, which nothing in
\* extract_environment_block catches
EbPopEmpty ==
    /\ pc = "eb_scan"
    /\ i < Len(content)
    /\ content[i + 1] = "}"
    /\ stack = <<>>
    /\ pc' = "exit"
    /\ runs' = Append(runs, [before |-> content, result |-> RaisesIndexError])
    /\ UNCHANGED <<argv, fs, lines, i, warnings, start_index, gi, brace_count,
                   block_started, block_lines, caller, exit_code, extractions,
                   examined, yamlvars, parsevars, batchvars, extractvars>>

\* lines 60-63: any other character
EbOther ==
    /\ pc = "eb_scan"
    /\ i < Len(content)
    /\ content[i + 1] \notin {"{", "}"}
    /\ i' = i + 1
    /\ UNCHANGED <<argv, fs, pc, lines, warnings, start_index, gi, brace_count,
                   block_started, block_lines, caller, exit_code, extractions,
                   examined, runs, yamlvars, parsevars, batchvars, extractvars>>

\* line 68: content[start + len("environment {"):end].strip() if end else None
EnvReturnValue ==
    IF end # -1 /\ end # 0
      THEN ReturnsStr(Strip(SubSeq(content,
                                   start + Len(W_environment_open) + 1, end)))
      ELSE ReturnsNone

\* line 68, after the break or at the end of the content
EbReturn ==
    /\ \/ pc = "eb_return"
       \/ pc = "eb_scan" /\ i >= Len(content)
    /\ pc' = "exit"
    /\ runs' = Append(runs, [before |-> content, result |-> EnvReturnValue])
    /\ UNCHANGED <<argv, fs, lines, i, warnings, start_index, gi, brace_count,
                   block_started, block_lines, caller, exit_code, extractions,
                   examined, yamlvars, parsevars, batchvars, extractvars>>

EnvOpenChunk == W_environment_open
UpperEnvChunk == <<"E","N","V","I","R","O","N","M","E","N","T"," ","{">>
AssignChunk == <<" ","A","=","1"," ">>
OpenBraceChunk == <<"{">>
CloseBraceChunk == <<"}">>
DottedChunk == <<DottedI>>
DottedRunChunk == [k \in 1..Len(W_environment_open) |-> DottedI]

EnvCatalogue == {EnvOpenChunk, UpperEnvChunk, AssignChunk, OpenBraceChunk,
                 CloseBraceChunk, DottedChunk, DottedRunChunk}

\* extract_environment_block is called on the content of a file that has
\* been decoded
InitEnv ==
    /\ argv = <<>>
    /\ fs = <<>>
    /\ pc = "eb_find"
    /\ lines = <<>>
    /\ i = 0
    /\ warnings = <<>>
    /\ start_index = 0
    /\ gi = 0
    /\ brace_count = 0
    /\ block_started = FALSE
    /\ block_lines = <<>>
    /\ caller = "none"
    /\ exit_code = -1
    /\ extractions = <<>>
    /\ examined = {}
    /\ runs = <<>>
    /\ InitYamlVars
    /\ content \in TextsOf(EnvCatalogue, MaxEnvChunks)
    /\ stage_blocks = <<>>
    /\ bidx = 0
    /\ stages = <<>>
    /\ step_counts = <<>>
    /\ tool_counts_per_stage = <<>>
    /\ tools_used_per_stage = <<>>
    /\ variant = "root"
    /\ InitBatchVars
    /\ InitExtractVars

NextEnv == EbFind \/ EbPush \/ EbPop \/ EbPopEmpty \/ EbOther \/ EbReturn

SpecEnv == InitEnv /\ [][NextEnv]_vars

\* the position of the marker in the content itself, -1 if it has none
MarkerIn(s) ==
    LET R == {k \in 0..(Len(s) - Len(W_environment_open)) :
                 MatchAt(Lower(s), k, W_environment_open)}
    IN  IF R = {} THEN -1 ELSE CHOOSE k \in R : \A h \in R : k <= h

\* the text strictly between the opening brace of the marker and the closing
\* brace that matches it, None without marker or without that closing brace
BetweenBraces(s) ==
    IF MarkerIn(s) = -1 \/ EnvEnd(s, MarkerIn(s)) = -1 THEN ReturnsNone
    ELSE ReturnsStr(Strip(SubSeq(s, MarkerIn(s) + Len(W_environment_open) + 1,
                                 EnvEnd(s, MarkerIn(s)))))

\* C30: extract_environment_block never pops its stack while it is empty and
\* never raises, for any content; it returns the text between the opening
\* brace of the 'environment {' marker and the matching closing brace, and
\* None when the marker is absent or the block never closes.
C30_StackNeverPoppedEmpty ==
    /\ (pc = "eb_scan" /\ i < Len(content) /\ content[i + 1] = "}")
          => stack # <<>>
    /\ \A r \in DOMAIN runs :
          /\ runs[r].result # RaisesIndexError
          /\ runs[r].result = BetweenBraces(runs[r].before)

====
